---- MODULE Spec2Model ----
(***************************************************************************)
(* A model of the pixel-renderer crate: the 2D pixel generators            *)
(* (BresenhamLine, WuLine, BresenhamCircle), the LineBuilder path builder, *)
(* the Drawifier compositor, the camera's canvas computation, the          *)
(* Rasterizer and the event loop of the 3D scene example.                  *)
(*                                                                         *)
(* Each component has its own specification over the shared variable       *)
(* list; the variables of the components a specification does not drive    *)
(* stay at their idle values.                                              *)
(***************************************************************************)
EXTENDS Integers, Sequences, FiniteSets, TLC

(***************************************************************************)
(* Bounds of the model.                                                    *)
(***************************************************************************)
\* line endpoints are drawn from (-MaxLineCoord..MaxLineCoord)^2
MaxLineCoord == 3
\* a builder accepts calls while its path has fewer than MaxPathLen points
MaxPathLen == 6
\* output_width and output_height are drawn from 1..MaxDim
MaxDim == 2
\* the pixels handed to the compositor have coordinates in -1..MaxPixelCoord
MaxPixelCoord == 1
\* the World's objects hold at most MaxPixels pixels in total
MaxPixels == 2
\* a World is rendered at most MaxRenders times
MaxRenders == 2
\* aperture width and height are drawn from 1..MaxAperture
MaxAperture == 3
\* the output dimensions handed to canvas() are drawn from 1..MaxOutput
MaxOutput == 3
\* circle radii are drawn from 0..MaxRadius
MaxRadius == 12
\* WuLine endpoints are drawn from (-MaxWuCoord..MaxWuCoord)^2
MaxWuCoord == 3
\* the Rasterizer's output is MaxRasterCoord pixels wide and high, and the
\* raster-space vertices of the meshes lie on and around that square
MaxRasterCoord == 5

\* a wheel event turns the wheel by at most MaxWheelNotches notches, and the
\* focal length is followed up to MaxWheelNotches wheel units
MaxWheelNotches == 3

\* the camera is followed up to MaxKeySteps key steps from the origin
MaxKeySteps == 1

\* the yaw is followed up to MaxYaw quarter turns from its initial value
MaxYaw == 2

\* the cursor moves over the pixels 0..MaxCursor of the window
MaxCursor == 1

\* a Resized event gives the window 1..MaxResize logical pixels a side
MaxResize == 3

(***************************************************************************)
(* Helpers.                                                                *)
(***************************************************************************)
Abs(n) == IF n < 0 THEN -n ELSE n

Max(a, b) == IF a >= b THEN a ELSE b

Min(a, b) == IF a <= b THEN a ELSE b

Last(s) == s[Len(s)]

Front(s) == SubSeq(s, 1, Len(s) - 1)

(***************************************************************************)
(* drawing.rs: Pixel.  A point is a pair <<x, y>>.                         *)
(***************************************************************************)
Normal(x, y) == [kind |-> "Normal", x |-> x, y |-> y]

AntiAliased(x, y, a) == [kind |-> "AntiAliased", x |-> x, y |-> y, a |-> a]

VARIABLES
    \* BresenhamLine: the generator, its constructor argument `from`, the
    \* pixels next() has returned so far, and whether next() has returned None
    bline, blFrom, blOut, blNone,
    \* LineBuilder: the type-state tag, the three fields, the calls made on
    \* the builder so far, and what end() filtered through and produced
    lbState, path, skip_line, last_line_beginning, calls, lines, shape,
    \* Drawifier and its caller: the renderer's two fields, the World's
    \* objects, the caller's frame buffer, the position of the render call
    \* (dpc, and iter: what is left of objects.iter().flatten()), and the
    \* number of render calls that have returned
    output_width, output_height, objects, frame, dpc, iter, renders,
    \* Camera and Canvas: the camera's projection parameters, the output
    \* dimensions handed to canvas(), and the canvas it returned
    camera, output_dimensions, canvas,
    \* BresenhamCircle: the generator, its constructor argument r, the pixels
    \* next() has returned so far, and whether next() has returned None
    circle, circR, circOut, circNone,
    \* WuLine: the generator, its constructor arguments, the pixels next()
    \* has returned so far, the f32 opacity each of them was quantized from,
    \* and whether next() has returned None
    wuline, wuFrom, wuTo, wuOut, wuOpacity, wuNone,
    \* Rasterizer and its caller: the renderer's two fields, the World's
    \* meshes (their vertices already mapped to raster space), the caller's
    \* frame buffer, the depth buffer and the shapes of the render call, what
    \* the fill pass computed for each triangle so far (fill_log), and the
    \* position of the call (rpc, and rpos: the object and the triangle the
    \* fill pass works on next)
    rasterizer, meshes, rframe, depth_buffer, shapes, fill_log, rpc, rpos,
    \* the event loop of examples/3d-scene.rs: the World's camera, the two
    \* locals of main the handlers keep, whether a redraw is requested, and
    \* the cameras render has been called with
    world_camera, lmb_pressed, last_cursor, redraw_requested, rendered,
    \* the window's side of the event loop of the examples: the scale factor
    \* of the window, the sizes of the surface and of the buffer of `pixels`,
    \* the two fields of world.renderer, the sizes the latest render call
    \* met, and whether the loop has been told to exit
    scale_factor, pixel_surface, pixel_buffer, renderer_output, render_call, exiting

LineVars == <<bline, blFrom, blOut, blNone>>

BuilderVars == <<lbState, path, skip_line, last_line_beginning, calls, lines, shape>>

DrawVars == <<output_width, output_height, objects, frame, dpc, iter, renders>>

CanvasVars == <<camera, output_dimensions, canvas>>

CircleVars == <<circle, circR, circOut, circNone>>

WuVars == <<wuline, wuFrom, wuTo, wuOut, wuOpacity, wuNone>>

RasterVars == <<rasterizer, meshes, rframe, depth_buffer, shapes, fill_log, rpc, rpos>>

SceneVars == <<world_camera, lmb_pressed, last_cursor, redraw_requested, rendered>>

WindowVars == <<scale_factor, pixel_surface, pixel_buffer, renderer_output, render_call,
                exiting>>

vars == <<LineVars, BuilderVars, DrawVars, CanvasVars, CircleVars, WuVars, RasterVars,
          SceneVars, WindowVars>>

(***************************************************************************)
(* drawing.rs: BresenhamLine.                                              *)
(***************************************************************************)
BresenhamLineNew(from, to) ==
    LET dx == Abs(to[1] - from[1])
        sx == IF from[1] < to[1] THEN 1 ELSE -1
        dy == -Abs(to[2] - from[2])
        sy == IF from[2] < to[2] THEN 1 ELSE -1
    IN  [p |-> from, to |-> to, dx |-> dx, dy |-> dy, sx |-> sx, sy |-> sy,
         error |-> dx + dy, stop |-> FALSE]

\* the pixel a call of next() returns when the generator has not stopped
BresenhamLineOutput(l) == Normal(l.p[1], l.p[2])

\* a slip: the axis checks look at the coordinate after the step
BresenhamLineAdvanceStopsEarly(l) ==
    LET stop0 == (l.p = l.to)
        e2 == l.error * 2
        stepX == e2 >= l.dy
        px1 == IF stepX THEN l.p[1] + l.sx ELSE l.p[1]
        stop1 == IF stepX THEN (px1 = l.to[1]) ELSE stop0
        error1 == IF stepX THEN l.error + l.dy ELSE l.error
        stepY == e2 <= l.dx
        py2 == IF stepY THEN l.p[2] + l.sy ELSE l.p[2]
        stop2 == IF stepY THEN (py2 = l.to[2]) ELSE stop1
        error2 == IF stepY THEN error1 + l.dx ELSE error1
    IN  [l EXCEPT !.p = <<px1, py2>>, !.error = error2, !.stop = stop2]

\* the state next() leaves behind when the generator has not stopped
BresenhamLineAdvance(l) ==
    LET stop0 == (l.p = l.to)
        e2 == l.error * 2
        stepX == e2 >= l.dy
        stop1 == IF stepX THEN (l.p[1] = l.to[1]) ELSE stop0
        error1 == IF stepX THEN l.error + l.dy ELSE l.error
        px1 == IF stepX THEN l.p[1] + l.sx ELSE l.p[1]
        stepY == e2 <= l.dx
        stop2 == IF stepY THEN (l.p[2] = l.to[2]) ELSE stop1
        error2 == IF stepY THEN error1 + l.dx ELSE error1
        py2 == IF stepY THEN l.p[2] + l.sy ELSE l.p[2]
    IN  [l EXCEPT !.p = <<px1, py2>>, !.error = error2, !.stop = stop2]

\* the whole pixel sequence of a generator, as collect() or flat_map drains it
RECURSIVE BresenhamLineDrain(_)
BresenhamLineDrain(l) ==
    IF l.stop THEN <<>>
    ELSE <<BresenhamLineOutput(l)>> \o BresenhamLineDrain(BresenhamLineAdvance(l))

BresenhamLinePixels(from, to) == BresenhamLineDrain(BresenhamLineNew(from, to))

\* no generator is being drained: the variables hold one that is exhausted
LineIdle ==
    /\ bline = [BresenhamLineNew(<<0, 0>>, <<0, 0>>) EXCEPT !.stop = TRUE]
    /\ blFrom = <<0, 0>>
    /\ blOut = <<>>
    /\ blNone = TRUE

DrawIdle ==
    /\ output_width = 0
    /\ output_height = 0
    /\ objects = <<>>
    /\ frame = <<>>
    /\ dpc = "idle"
    /\ iter = <<>>
    /\ renders = 0

CanvasIdle ==
    /\ camera = [aperture |-> <<1, 1>>, focal_length |-> <<1, 1>>,
                 near |-> <<1, 1>>, fit_strategy |-> "Overscan"]
    /\ output_dimensions = <<1, 1>>
    /\ canvas = <<>>

CircleIdle ==
    /\ circle = [center |-> <<0, 0>>, x |-> 1, y |-> 0, d |-> 3, buffer |-> <<>>]
    /\ circR = 0
    /\ circOut = <<>>
    /\ circNone = TRUE

WuIdle ==
    /\ wuline = [steep |-> FALSE, x |-> 1, x_end |-> 0, inter_y |-> 0, gradient |-> 0,
                 is_drawind_pixel_a |-> TRUE, start_end_buffer |-> <<>>]
    /\ wuFrom = <<0, 0>>
    /\ wuTo = <<0, 0>>
    /\ wuOut = <<>>
    /\ wuOpacity = <<>>
    /\ wuNone = TRUE

RasterIdle ==
    /\ rasterizer = [output_width |-> 0, output_height |-> 0]
    /\ meshes = <<>>
    /\ rframe = <<>>
    /\ depth_buffer = <<>>
    /\ shapes = <<>>
    /\ fill_log = <<>>
    /\ rpc = "idle"
    /\ rpos = <<1, 1>>

SceneIdle ==
    /\ world_camera = [focal_length |-> 10, near |-> <<1, 10>>, far |-> <<10, 1>>,
                       position |-> <<0, 0, 0>>, yaw |-> 0, pitch |-> 0]
    /\ lmb_pressed = FALSE
    /\ last_cursor = <<>>
    /\ redraw_requested = FALSE
    /\ rendered = <<>>

WindowIdle ==
    /\ scale_factor = 1
    /\ pixel_surface = <<0, 0>>
    /\ pixel_buffer = <<0, 0>>
    /\ renderer_output = <<0, 0>>
    /\ render_call = <<>>
    /\ exiting = FALSE

LineCoords == (-MaxLineCoord)..MaxLineCoord

LinePoints == LineCoords \X LineCoords

(***************************************************************************)
(* drawing.rs: LineBuilder<L, Valid>, with L = BresenhamLine.              *)
(* path is a Vec: index i of the code is position i+1 of the sequence.     *)
(***************************************************************************)
At(s, i) == s[i + 1]

Contains(s, e) == \E k \in 1..Len(s) : s[k] = e

\* Iterator::enumerate
Enumerate(s) == [k \in 1..Len(s) |-> <<k - 1, s[k]>>]

\* Iterator::skip(1)
Skip1(s) == IF Len(s) = 0 THEN <<>> ELSE Tail(s)

\* Iterator::zip: stops with the shorter side
Zip(s, t) == [k \in 1..Min(Len(s), Len(t)) |-> <<s[k], t[k]>>]

\* Iterator::flat_map(|((_, p0), (_, p1))| L::new(p0, p1))
RECURSIVE FlatMapLines(_)
FlatMapLines(prs) ==
    IF Len(prs) = 0 THEN <<>>
    ELSE BresenhamLinePixels(Head(prs)[1][2], Head(prs)[2][2])
            \o FlatMapLines(Tail(prs))

\* a slip: the second iterator is not advanced, pairing every point with itself
EndFilteredNoSkip(pth, skip) ==
    LET keep(pr) == ~Contains(skip, <<pr[1][1], pr[2][1]>>)
    IN  SelectSeq(Zip(Enumerate(pth), Enumerate(pth)), keep)

\* a slip: the filter keeps the pairs of skip_line instead of the others
EndFilteredKeepsSkipped(pth, skip) ==
    LET keep(pr) == Contains(skip, <<pr[1][1], pr[2][1]>>)
    IN  SelectSeq(Zip(Enumerate(pth), Skip1(Enumerate(pth))), keep)

\* end(): the pairs ((i0, p0), (i1, p1)) that pass the filter
EndFiltered(pth, skip) ==
    LET keep(pr) == ~Contains(skip, <<pr[1][1], pr[2][1]>>)
    IN  SelectSeq(Zip(Enumerate(pth), Skip1(Enumerate(pth))), keep)

\* a slip: close() returns to the first point of the path
ClosePointFirst(pth, llb) == At(pth, 0)

\* close(): the point pushed, self.path[self.last_line_beginning]
ClosePoint(pth, llb) == At(pth, llb)

\* a slip: the pair is taken one position too far
FromSkipPairOffByOne(pth) == <<Len(pth) - 1, Len(pth)>>

\* from() on a HasEnd builder, after path.push(p): the pair pushed to skip_line
FromSkipPair(pth) == <<Len(pth) - 2, Len(pth) - 1>>

\* a slip: the new subpath is said to begin one past the point pushed
FromLineBeginningPastEnd(pth) == Len(pth)

\* from() on a HasEnd builder, after path.push(p): last_line_beginning
FromLineBeginning(pth) == Len(pth) - 1

\* a slip: to() on a HasStart builder forgets to push the point
HasStartToPathDropsPoint(pth, p) == pth

\* to() on a HasStart builder: the path after path.push(p)
HasStartToPath(pth, p) == Append(pth, p)

PathPoints == {<<0, 0>>, <<3, 1>>, <<1, -2>>}

BuilderIdle ==
    /\ lbState = "NoPoints"
    /\ path = <<>>
    /\ skip_line = <<>>
    /\ last_line_beginning = 0
    /\ calls = <<>>
    /\ lines = <<>>
    /\ shape = <<>>

NotBuilderVars == <<LineVars, DrawVars, CanvasVars, CircleVars, WuVars, RasterVars, SceneVars, WindowVars>>

\* LineBuilder::new()
InitBuilder ==
    /\ BuilderIdle /\ LineIdle /\ DrawIdle /\ CanvasIdle /\ CircleIdle
    /\ WuIdle /\ RasterIdle /\ SceneIdle /\ WindowIdle

\* LineBuilder<L, NoPoints>::from
NoPointsFrom(p) ==
    /\ lbState = "NoPoints"
    /\ path' = <<p>>
    /\ skip_line' = <<>>
    /\ last_line_beginning' = 0
    /\ lbState' = "HasStart"
    /\ calls' = Append(calls, <<"from", p>>)
    /\ UNCHANGED <<lines, shape>>
    /\ UNCHANGED NotBuilderVars

\* LineBuilder<L, HasStart>::to
HasStartTo(p) ==
    /\ lbState = "HasStart"
    /\ path' = HasStartToPath(path, p)
    /\ lbState' = "HasEnd"
    /\ calls' = Append(calls, <<"to", p>>)
    /\ UNCHANGED <<skip_line, last_line_beginning, lines, shape>>
    /\ UNCHANGED NotBuilderVars

\* LineBuilder<L, HasEnd>::to
HasEndTo(p) ==
    /\ lbState = "HasEnd"
    /\ Len(path) < MaxPathLen
    /\ path' = Append(path, p)
    /\ calls' = Append(calls, <<"to", p>>)
    /\ UNCHANGED <<lbState, skip_line, last_line_beginning, lines, shape>>
    /\ UNCHANGED NotBuilderVars

\* LineBuilder<L, HasEnd>::from
HasEndFrom(p) ==
    /\ lbState = "HasEnd"
    /\ Len(path) < MaxPathLen
    /\ path' = Append(path, p)
    /\ skip_line' = Append(skip_line, FromSkipPair(path'))
    /\ last_line_beginning' = FromLineBeginning(path')
    /\ calls' = Append(calls, <<"from", p>>)
    /\ UNCHANGED <<lbState, lines, shape>>
    /\ UNCHANGED NotBuilderVars

\* LineBuilder<L, HasEnd>::close
HasEndClose ==
    /\ lbState = "HasEnd"
    /\ Len(path) < MaxPathLen
    /\ path' = Append(path, ClosePoint(path, last_line_beginning))
    /\ calls' = Append(calls, <<"close">>)
    /\ UNCHANGED <<lbState, skip_line, last_line_beginning, lines, shape>>
    /\ UNCHANGED NotBuilderVars

\* LineBuilder<L, HasEnd>::end, drained (as shape() does)
HasEndEnd ==
    /\ lbState = "HasEnd"
    /\ lines' = EndFiltered(path, skip_line)
    /\ shape' = FlatMapLines(lines')
    /\ lbState' = "Ended"
    /\ UNCHANGED <<path, skip_line, last_line_beginning, calls>>
    /\ UNCHANGED NotBuilderVars

NextBuilder ==
    \/ \E p \in PathPoints : NoPointsFrom(p)
    \/ \E p \in PathPoints : HasStartTo(p)
    \/ \E p \in PathPoints : HasEndTo(p)
    \/ \E p \in PathPoints : HasEndFrom(p)
    \/ HasEndClose
    \/ HasEndEnd

SpecBuilder == InitBuilder /\ [][NextBuilder]_vars

NotLineVars == <<BuilderVars, DrawVars, CanvasVars, CircleVars, WuVars, RasterVars, SceneVars, WindowVars>>

InitLine ==
    /\ BuilderIdle /\ DrawIdle /\ CanvasIdle /\ CircleIdle
    /\ WuIdle /\ RasterIdle /\ SceneIdle /\ WindowIdle
    /\ \E from \in LinePoints, to \in LinePoints :
          /\ bline = BresenhamLineNew(from, to)
          /\ blFrom = from
    /\ blOut = <<>>
    /\ blNone = FALSE

\* Iterator::next returning Some(output)
BresenhamLineNextSome ==
    /\ ~bline.stop
    /\ blOut' = Append(blOut, BresenhamLineOutput(bline))
    /\ bline' = BresenhamLineAdvance(bline)
    /\ UNCHANGED <<blFrom, blNone>>
    /\ UNCHANGED NotLineVars

\* Iterator::next returning None
BresenhamLineNextNone ==
    /\ bline.stop
    /\ blNone' = TRUE
    /\ UNCHANGED <<bline, blFrom, blOut>>
    /\ UNCHANGED NotLineVars

NextLine == BresenhamLineNextSome \/ BresenhamLineNextNone

SpecLine == InitLine /\ [][NextLine]_vars

(***************************************************************************)
(* renderer/drawifier.rs: Drawifier.  The frame is a slice of 4-byte       *)
(* pixels <<r, g, b, a>>; index idx of the code is position idx+1.         *)
(* Colours are the 8-bit values; the f32 channel value of byte c is c/255, *)
(* and into_format back to u8 rounds to the nearest byte.                  *)
(***************************************************************************)
\* n/d rounded to the nearest integer (n >= 0, d > 0)
RoundDiv(n, d) == (2 * n + d) \div (2 * d)

\* Porter-Duff "over" of two straight-alpha colours, as Compose::over does it
\* on Srgba<f32>: premultiply, top + bottom * (1 - top.alpha), unpremultiply
SourceOver(top, bottom) ==
    LET ta == top[4]
        ba == bottom[4]
        \* the resulting alpha, times 255 * 255
        alpha == 255 * ta + ba * (255 - ta)
        ch(i) == IF alpha = 0 THEN 0
                 ELSE RoundDiv(255 * top[i] * ta + bottom[i] * ba * (255 - ta), alpha)
    IN  <<ch(1), ch(2), ch(3), RoundDiv(alpha, 255)>>

\* a slip: the operands of over are exchanged, dest.over(src)
OverSwapped(src, dest) == SourceOver(dest, src)

\* src.over(dest).into_format().into()
Over(src, dest) == SourceOver(src, dest)

\* a slip: only output_width * output_height pixels are cleared
ClearFrameByDimensions(fr, w, h) ==
    [k \in 1..Len(fr) |-> IF k <= w * h THEN <<0, 0, 0, 255>> ELSE fr[k]]

\* the first loop of render: every pixel of the frame becomes [0, 0, 0, 0xff]
ClearFrame(fr, w, h) == [k \in 1..Len(fr) |-> <<0, 0, 0, 255>>]

\* the match on *p: (x, y, a)
PixelXYA(p) ==
    IF p.kind = "Normal" THEN <<p.x, p.y, 255>> ELSE <<p.x, p.y, p.a>>

\* frame[idx] read and written back: an index past the end panics
BlendAt(fr, idx, a) ==
    IF idx >= Len(fr) THEN [frame |-> fr, fault |-> TRUE]
    ELSE [frame |-> [fr EXCEPT ![idx + 1] = Over(<<255, 255, 255, a>>, fr[idx + 1])],
          fault |-> FALSE]

\* a slip: the check of idx against frame.len() is missing
DrawPixelNoLenCheck(fr, w, h, p) ==
    LET x == PixelXYA(p)[1]
        y == PixelXYA(p)[2]
        a == PixelXYA(p)[3]
        idx == w * y + x
    IN  IF x < 0 \/ y < 0 THEN [frame |-> fr, fault |-> FALSE]
        ELSE IF x >= w \/ y >= h THEN [frame |-> fr, fault |-> FALSE]
        ELSE BlendAt(fr, idx, a)

\* one iteration of the second loop of render
DrawPixel(fr, w, h, p) ==
    LET x == PixelXYA(p)[1]
        y == PixelXYA(p)[2]
        a == PixelXYA(p)[3]
        idx == w * y + x
    IN  IF x < 0 \/ y < 0 THEN [frame |-> fr, fault |-> FALSE]
        ELSE IF idx >= Len(fr) THEN [frame |-> fr, fault |-> FALSE]
        ELSE IF x >= w \/ y >= h THEN [frame |-> fr, fault |-> FALSE]
        ELSE BlendAt(fr, idx, a)

\* objects.iter().flatten()
RECURSIVE Flatten(_)
Flatten(objs) ==
    IF Len(objs) = 0 THEN <<>> ELSE Head(objs) \o Flatten(Tail(objs))

PixelCoords == (-1)..MaxPixelCoord

AlphaLevels == {0, 128, 255}

Pixels ==
    {Normal(x, y) : x \in PixelCoords, y \in PixelCoords}
        \cup {AntiAliased(x, y, a) : x \in PixelCoords, y \in PixelCoords, a \in AlphaLevels}

RECURSIVE PixelSeqs(_)
PixelSeqs(n) ==
    IF n = 0 THEN {<<>>}
    ELSE LET shorter == PixelSeqs(n - 1)
         IN  shorter \cup {Append(sq, p) : sq \in {t \in shorter : Len(t) = n - 1}, p \in Pixels}

\* the lists of one or two shapes that hold at most n pixels in total
ObjectLists(n) ==
    {<<sq>> : sq \in PixelSeqs(n)}
        \cup UNION {{<<SubSeq(sq, 1, k), SubSeq(sq, k + 1, Len(sq))>> : k \in 0..Len(sq)} :
                        sq \in PixelSeqs(n)}

\* what the frame may hold before the first render
StalePixels == {<<12, 200, 7, 0>>, <<255, 255, 255, 255>>}

NotDrawVars == <<LineVars, BuilderVars, CanvasVars, CircleVars, WuVars, RasterVars, SceneVars, WindowVars>>

\* a World with a Drawifier and its objects, and the caller's buffer
InitDraw ==
    /\ LineIdle /\ BuilderIdle /\ CanvasIdle /\ CircleIdle
    /\ WuIdle /\ RasterIdle /\ SceneIdle /\ WindowIdle
    /\ output_width \in 1..MaxDim
    /\ output_height \in 1..MaxDim
    /\ objects \in ObjectLists(MaxPixels)
    /\ \E n \in {output_width * output_height + e : e \in {-1, 0, 1}},
          stale \in StalePixels :
          frame = [k \in 1..n |-> stale]
    /\ dpc = "idle"
    /\ iter = <<>>
    /\ renders = 0

\* World::render -> Drawifier::render: the clearing loop
DrawifierRenderClear ==
    /\ dpc = "idle"
    /\ renders < MaxRenders
    /\ frame' = ClearFrame(frame, output_width, output_height)
    /\ iter' = Flatten(objects)
    /\ dpc' = "blend"
    /\ UNCHANGED <<output_width, output_height, objects, renders>>
    /\ UNCHANGED NotDrawVars

\* Drawifier::render: one iteration of the blending loop
DrawifierRenderPixel ==
    /\ dpc = "blend"
    /\ Len(iter) > 0
    /\ LET r == DrawPixel(frame, output_width, output_height, Head(iter))
       IN  /\ frame' = r.frame
           /\ dpc' = IF r.fault THEN "panic" ELSE "blend"
    /\ iter' = Tail(iter)
    /\ UNCHANGED <<output_width, output_height, objects, renders>>
    /\ UNCHANGED NotDrawVars

\* Drawifier::render: the blending loop is over and the call returns
DrawifierRenderReturn ==
    /\ dpc = "blend"
    /\ Len(iter) = 0
    /\ dpc' = "idle"
    /\ renders' = renders + 1
    /\ UNCHANGED <<output_width, output_height, objects, frame, iter>>
    /\ UNCHANGED NotDrawVars

NextDraw ==
    \/ DrawifierRenderClear
    \/ DrawifierRenderPixel
    \/ DrawifierRenderReturn

SpecDraw == InitDraw /\ [][NextDraw]_vars

(***************************************************************************)
(* camera.rs: Canvas::from_camera_parameters.  An f32 is modelled by the   *)
(* exact fraction <<n, d>> (d > 0, in lowest terms) it approximates.       *)
(***************************************************************************)
RECURSIVE Gcd(_, _)
Gcd(a, b) == IF b = 0 THEN a ELSE Gcd(b, a % b)

Frac(n, d) ==
    LET g == Gcd(Abs(n), Abs(d))
        sgn == IF d < 0 THEN -1 ELSE 1
    IN  <<sgn * (n \div g), sgn * (d \div g)>>

FMul(a, b) == Frac(a[1] * b[1], a[2] * b[2])

FDiv(a, b) == Frac(a[1] * b[2], a[2] * b[1])

FGt(a, b) == a[1] * b[2] > b[1] * a[2]

\* the pair (x_scale, y_scale) the match on fit_strategy yields
FitScales(fit_strategy, aperture_aspect_ratio, output_aspect_ratio) ==
    IF fit_strategy = "Fill"
    THEN IF FGt(aperture_aspect_ratio, output_aspect_ratio)
         THEN <<FDiv(output_aspect_ratio, aperture_aspect_ratio), <<1, 1>> >>
         ELSE << <<1, 1>>, FDiv(aperture_aspect_ratio, output_aspect_ratio)>>
    ELSE IF FGt(aperture_aspect_ratio, output_aspect_ratio)
         THEN << <<1, 1>>, FDiv(aperture_aspect_ratio, output_aspect_ratio)>>
         ELSE <<FDiv(output_aspect_ratio, aperture_aspect_ratio), <<1, 1>> >>

FromCameraParameters(aperture, focal_length, near, fit_strategy, out) ==
    LET aperture_aspect_ratio == Frac(aperture[1], aperture[2])
        output_aspect_ratio == Frac(out[1], out[2])
        scales == FitScales(fit_strategy, aperture_aspect_ratio, output_aspect_ratio)
        x_scale == scales[1]
        y_scale == scales[2]
        width == FMul(FMul(FMul(<<2, 1>>,
                                FDiv(FDiv(<<aperture[1], 1>>, <<2, 1>>), focal_length)),
                           near),
                      x_scale)
        height == FMul(FDiv(width, aperture_aspect_ratio), y_scale)
    IN  [width |-> width, height |-> height]

\* Camera::canvas
CameraCanvas(cam, out) ==
    FromCameraParameters(cam.aperture, cam.focal_length, cam.near,
                         cam.fit_strategy, out)

\* focal lengths and near planes of the cameras the examples build
FocalLengths == {<<10, 1>>, <<7, 2>>}

NearPlanes == {<<1, 10>>, <<1, 1>>}

Cameras ==
    [aperture : (1..MaxAperture) \X (1..MaxAperture),
     focal_length : FocalLengths,
     near : NearPlanes,
     fit_strategy : {"Fill", "Overscan"}]

NotCanvasVars == <<LineVars, BuilderVars, DrawVars, CircleVars, WuVars, RasterVars, SceneVars, WindowVars>>

InitCanvas ==
    /\ LineIdle /\ BuilderIdle /\ DrawIdle /\ CircleIdle
    /\ WuIdle /\ RasterIdle /\ SceneIdle /\ WindowIdle
    /\ camera \in Cameras
    /\ output_dimensions \in (1..MaxOutput) \X (1..MaxOutput)
    /\ canvas = <<>>

\* Rasterizer::render, its first statement: camera.canvas((width, height))
RenderComputesCanvas ==
    /\ canvas' = <<CameraCanvas(camera, output_dimensions)>>
    /\ UNCHANGED <<camera, output_dimensions>>
    /\ UNCHANGED NotCanvasVars

\* Rasterizer::set_output_dimensions; the canvas of the last render is gone
RasterizerSetOutputDimensions(w, h) ==
    /\ output_dimensions' = <<w, h>>
    /\ canvas' = <<>>
    /\ UNCHANGED camera
    /\ UNCHANGED NotCanvasVars

NextCanvas ==
    \/ RenderComputesCanvas
    \/ \E w \in 1..MaxOutput, h \in 1..MaxOutput : RasterizerSetOutputDimensions(w, h)

SpecCanvas == InitCanvas /\ [][NextCanvas]_vars

(***************************************************************************)
(* drawing/circle.rs: BresenhamCircle.  A pixel is its position <<x, y>>;  *)
(* the colour every pixel of a circle carries is left out.                 *)
(***************************************************************************)
BresenhamCircleNew(c, r) ==
    [center |-> c, x |-> 0, y |-> r, d |-> 3 - 2 * r, buffer |-> <<>>]

put_pixels(g) ==
    LET c == g.center
        x == g.x
        y == g.y
    IN  << <<c[1] + x, c[2] + y>>, <<c[1] - x, c[2] + y>>,
           <<c[1] + x, c[2] - y>>, <<c[1] - x, c[2] - y>>,
           <<c[1] + y, c[2] + x>>, <<c[1] - y, c[2] + x>>,
           <<c[1] + y, c[2] - x>>, <<c[1] - y, c[2] - x>> >>

\* a slip: y is not decremented when d > 0
BresenhamCircleAdvanceKeepsY(g) ==
    LET x1 == g.x + 1
        d1 == IF g.d > 0 THEN g.d + 4 * (x1 - g.y) + 10 ELSE g.d + 4 * x1 + 6
    IN  [g EXCEPT !.x = x1, !.d = d1,
                  !.buffer = g.buffer \o Tail(put_pixels(g))]

\* the last branch of next(): buffer seven pixels, step x (and y), update d
BresenhamCircleAdvance(g) ==
    LET x1 == g.x + 1
        y1 == IF g.d > 0 THEN g.y - 1 ELSE g.y
        d1 == IF g.d > 0 THEN g.d + 4 * (x1 - y1) + 10 ELSE g.d + 4 * x1 + 6
    IN  [g EXCEPT !.x = x1, !.y = y1, !.d = d1,
                  !.buffer = g.buffer \o Tail(put_pixels(g))]

CircleCenters == {<<0, 0>>, <<5, -3>>}

NotCircleVars == <<LineVars, BuilderVars, DrawVars, CanvasVars, WuVars, RasterVars, SceneVars, WindowVars>>

InitCircle ==
    /\ LineIdle /\ BuilderIdle /\ DrawIdle /\ CanvasIdle
    /\ WuIdle /\ RasterIdle /\ SceneIdle /\ WindowIdle
    /\ \E c \in CircleCenters, r \in 0..MaxRadius :
          /\ circle = BresenhamCircleNew(c, r)
          /\ circR = r
    /\ circOut = <<>>
    /\ circNone = FALSE

\* next(): self.buffer.pop()
BresenhamCircleNextBuffered ==
    /\ Len(circle.buffer) > 0
    /\ circOut' = Append(circOut, Last(circle.buffer))
    /\ circle' = [circle EXCEPT !.buffer = Front(circle.buffer)]
    /\ UNCHANGED <<circR, circNone>>
    /\ UNCHANGED NotCircleVars

\* next(): None
BresenhamCircleNextNone ==
    /\ Len(circle.buffer) = 0
    /\ circle.y < circle.x
    /\ circNone' = TRUE
    /\ UNCHANGED <<circle, circR, circOut>>
    /\ UNCHANGED NotCircleVars

\* next(): Some(pixels[0]) of a new octant step
BresenhamCircleNextStep ==
    /\ Len(circle.buffer) = 0
    /\ ~(circle.y < circle.x)
    /\ circOut' = Append(circOut, Head(put_pixels(circle)))
    /\ circle' = BresenhamCircleAdvance(circle)
    /\ UNCHANGED <<circR, circNone>>
    /\ UNCHANGED NotCircleVars

NextCircle ==
    \/ BresenhamCircleNextBuffered
    \/ BresenhamCircleNextNone
    \/ BresenhamCircleNextStep

SpecCircle == InitCircle /\ [][NextCircle]_vars

(***************************************************************************)
(* drawing.rs: WuLine.  An f32 is modelled by the integer n of the value   *)
(* n / F32Unit: every f32 of magnitude in [1/16, 16) is such a value, and  *)
(* the result of an operation is rounded to 24 significant bits, ties to   *)
(* even, as the hardware rounds it.                                        *)
(***************************************************************************)
F32Unit == 2^27

\* `k as f32` of a small integer
F32FromInt(k) == k * F32Unit

\* the number of low bits an f32 drops from the magnitude a
RECURSIVE F32Shift(_)
F32Shift(a) == IF a < 2^24 THEN 0 ELSE 1 + F32Shift(a \div 2)

\* n, with `sticky` telling that the exact value lies above n in magnitude,
\* rounded to the nearest f32
F32Round(n, sticky) ==
    LET a == Abs(n)
        s == F32Shift(a)
        q == a \div 2^s
        r == a % 2^s
        up == IF s = 0 THEN FALSE
              ELSE \/ 2 * r > 2^s
                   \/ 2 * r = 2^s /\ (sticky \/ q % 2 = 1)
        m == (IF up THEN q + 1 ELSE q) * 2^s
    IN  IF n < 0 THEN -m ELSE m

F32Add(a, b) == F32Round(a + b, FALSE)

F32Sub(a, b) == F32Round(a - b, FALSE)

\* a * b where b is a multiple of one half
F32Mul(a, b) ==
    LET h == b \div (F32Unit \div 2)
        n == a * h
    IN  F32Round((IF n < 0 THEN -1 ELSE 1) * (Abs(n) \div 2), Abs(n) % 2 = 1)

\* a / b of two f32 (b /= 0)
F32Div(a, b) ==
    LET g == Gcd(Abs(a), Abs(b))
        p == Abs(a) \div g
        q == Abs(b) \div g
        t == (p * F32Unit) \div q
        sgn == IF (a < 0) = (b < 0) THEN 1 ELSE -1
    IN  sgn * F32Round(t, (p * F32Unit) % q /= 0)

\* `f as i32`: towards zero
F32Trunc(f) == (IF f < 0 THEN -1 ELSE 1) * (Abs(f) \div F32Unit)

\* f32::fract: f - f.trunc(), with the sign of f
F32Fract(f) == f - F32Trunc(f) * F32Unit

\* f32::ceil
F32Ceil(f) == -(((-f) \div F32Unit) * F32Unit)

\* a slip: the value is scaled by 255 and not by 256
alpha_f32_to_u8_scale255(f) ==
    IF f >= F32Unit THEN 255
    ELSE IF f < 0 THEN 0
    ELSE ((f \div 2^19) * 255) \div 256

\* (if f >= 1 { 255 } else { f * 256 }) as u8: the cast drops the fraction
\* and saturates, so a negative value becomes 0
alpha_f32_to_u8(f) ==
    IF f >= F32Unit THEN 255
    ELSE IF f < 0 THEN 0
    ELSE f \div 2^19

\* the two pixels of an endpoint and the opacities they are quantized from
WuLineEndpointPair(steep, x, y, x_gap) ==
    LET x_i == F32Trunc(x)
        y_i == F32Trunc(y)
        f1 == F32Mul(F32Sub(F32Unit, F32Fract(y)), x_gap)
        f2 == F32Mul(F32Fract(y), x_gap)
    IN  IF steep
        THEN [pixels |-> <<AntiAliased(y_i, x_i, alpha_f32_to_u8(f1)),
                           AntiAliased(y_i + 1, x_i, alpha_f32_to_u8(f2))>>,
              opacities |-> <<f1, f2>>]
        ELSE [pixels |-> <<AntiAliased(x_i, y_i, alpha_f32_to_u8(f1)),
                           AntiAliased(x_i, y_i + 1, alpha_f32_to_u8(f2))>>,
              opacities |-> <<f1, f2>>]

\* a slip: the pair of the ending point is pushed before that of the start
WuLineBufferEndFirst(start, end) == end \o start

\* start_end_buffer after the four pushes
WuLineBuffer(start, end) == start \o end

\* WuLine::new; the buffer holds each pixel with the opacity it came from
WuLineNew(from_i, to_i) ==
    LET from0 == <<F32FromInt(from_i[1]), F32FromInt(from_i[2])>>
        to0 == <<F32FromInt(to_i[1]), F32FromInt(to_i[2])>>
        steep == Abs(F32Sub(to0[2], from0[2])) > Abs(F32Sub(to0[1], from0[1]))
        from1 == IF steep THEN <<from0[2], from0[1]>> ELSE from0
        to1 == IF steep THEN <<to0[2], to0[1]>> ELSE to0
        from == IF from1[1] > to1[1] THEN to1 ELSE from1
        to == IF from1[1] > to1[1] THEN from1 ELSE to1
        dx == F32Sub(to[1], from[1])
        dy == F32Sub(to[2], from[2])
        gradient == IF dx = 0 THEN F32Unit ELSE F32Div(dy, dx)
        \* Starting point
        xs == F32Ceil(from[1])
        ys == F32Add(from[2], F32Mul(gradient, F32Sub(xs, from[1])))
        x_gap_s == F32Sub(F32Unit, F32Fract(F32Add(from[1], F32Unit \div 2)))
        start == WuLineEndpointPair(steep, xs, ys, x_gap_s)
        inter_y == F32Add(ys, gradient)
        \* Ending point
        xe == F32Ceil(to[1])
        ye == F32Add(to[2], F32Mul(gradient, F32Sub(xe, to[1])))
        x_gap_e == F32Fract(F32Add(to[1], F32Unit \div 2))
        end == WuLineEndpointPair(steep, xe, ye, x_gap_e)
        entries(pr) == [k \in 1..2 |-> <<pr.pixels[k], pr.opacities[k]>>]
    IN  [steep |-> steep, x |-> F32Trunc(xs) + 1, x_end |-> F32Trunc(xe),
         inter_y |-> inter_y, gradient |-> gradient, is_drawind_pixel_a |-> TRUE,
         start_end_buffer |-> WuLineBuffer(entries(start), entries(end))]

\* the opacity of the first pixel of a column
WuLineOpacityA(inter_y) == F32Sub(F32Unit, F32Fract(inter_y))

\* a slip: the second pixel takes the opacity of the first
WuLineOpacityBSameAsA(inter_y) == F32Sub(F32Unit, F32Fract(inter_y))

\* the opacity of the second pixel of a column
WuLineOpacityB(inter_y) == F32Fract(inter_y)

\* the first pixel of a column, next() with is_drawind_pixel_a set
WuLinePixelA(l) ==
    IF l.steep
    THEN AntiAliased(F32Trunc(l.inter_y), l.x, alpha_f32_to_u8(WuLineOpacityA(l.inter_y)))
    ELSE AntiAliased(l.x, F32Trunc(l.inter_y), alpha_f32_to_u8(WuLineOpacityA(l.inter_y)))

\* the second pixel of a column: its minor coordinate is read from inter_y
\* after `self.inter_y += self.gradient`
WuLinePixelB(l) ==
    LET f_opacity == WuLineOpacityB(l.inter_y)
        inter_y1 == F32Add(l.inter_y, l.gradient)
    IN  IF l.steep
        THEN AntiAliased(F32Trunc(inter_y1) + 1, l.x, alpha_f32_to_u8(f_opacity))
        ELSE AntiAliased(l.x, F32Trunc(inter_y1) + 1, alpha_f32_to_u8(f_opacity))

\* a slip: x is not advanced after the second pixel of a column
WuLineAdvanceKeepsX(l) ==
    [l EXCEPT !.is_drawind_pixel_a = TRUE,
              !.inter_y = F32Add(l.inter_y, l.gradient)]

\* the state next() leaves behind after the second pixel of a column
WuLineAdvance(l) ==
    [l EXCEPT !.is_drawind_pixel_a = TRUE, !.x = l.x + 1,
              !.inter_y = F32Add(l.inter_y, l.gradient)]

\* the whole pixel sequence of a generator, as collect() or flat_map drains it
RECURSIVE WuLineDrain(_)
WuLineDrain(l) ==
    LET rest(next) == CHOOSE r \in {WuLineDrain(n) : n \in {next}} : TRUE
    IN  IF Len(l.start_end_buffer) > 0
        THEN <<Last(l.start_end_buffer)[1]>>
                \o rest([l EXCEPT !.start_end_buffer = Front(l.start_end_buffer)])
        ELSE IF l.x >= l.x_end THEN <<>>
        ELSE IF l.is_drawind_pixel_a
        THEN <<WuLinePixelA(l)>> \o rest([l EXCEPT !.is_drawind_pixel_a = FALSE])
        ELSE <<WuLinePixelB(l)>> \o rest(WuLineAdvance(l))

WuLinePixels(from, to) ==
    CHOOSE r \in {WuLineDrain(l) : l \in {WuLineNew(from, to)}} : TRUE

WuCoords == (-MaxWuCoord)..MaxWuCoord

WuPoints == WuCoords \X WuCoords

NotWuVars == <<LineVars, BuilderVars, DrawVars, CanvasVars, CircleVars, RasterVars, SceneVars, WindowVars>>

InitWu ==
    /\ LineIdle /\ BuilderIdle /\ DrawIdle /\ CanvasIdle /\ CircleIdle
    /\ RasterIdle /\ SceneIdle /\ WindowIdle
    /\ wuFrom \in WuPoints
    /\ wuTo \in WuPoints
    /\ wuline = WuLineNew(wuFrom, wuTo)
    /\ wuOut = <<>>
    /\ wuOpacity = <<>>
    /\ wuNone = FALSE

\* next(): self.start_end_buffer.pop()
WuLineNextBuffered ==
    /\ Len(wuline.start_end_buffer) > 0
    /\ wuOut' = Append(wuOut, Last(wuline.start_end_buffer)[1])
    /\ wuOpacity' = Append(wuOpacity, Last(wuline.start_end_buffer)[2])
    /\ wuline' = [wuline EXCEPT !.start_end_buffer = Front(wuline.start_end_buffer)]
    /\ UNCHANGED <<wuFrom, wuTo, wuNone>>
    /\ UNCHANGED NotWuVars

\* next(): None
WuLineNextNone ==
    /\ Len(wuline.start_end_buffer) = 0
    /\ wuline.x >= wuline.x_end
    /\ wuNone' = TRUE
    /\ UNCHANGED <<wuline, wuFrom, wuTo, wuOut, wuOpacity>>
    /\ UNCHANGED NotWuVars

\* next(): the first pixel of a column
WuLineNextPixelA ==
    /\ Len(wuline.start_end_buffer) = 0
    /\ wuline.x < wuline.x_end
    /\ wuline.is_drawind_pixel_a
    /\ wuOut' = Append(wuOut, WuLinePixelA(wuline))
    /\ wuOpacity' = Append(wuOpacity, WuLineOpacityA(wuline.inter_y))
    /\ wuline' = [wuline EXCEPT !.is_drawind_pixel_a = FALSE]
    /\ UNCHANGED <<wuFrom, wuTo, wuNone>>
    /\ UNCHANGED NotWuVars

\* next(): the second pixel of a column
WuLineNextPixelB ==
    /\ Len(wuline.start_end_buffer) = 0
    /\ wuline.x < wuline.x_end
    /\ ~wuline.is_drawind_pixel_a
    /\ wuOut' = Append(wuOut, WuLinePixelB(wuline))
    /\ wuOpacity' = Append(wuOpacity, WuLineOpacityB(wuline.inter_y))
    /\ wuline' = WuLineAdvance(wuline)
    /\ UNCHANGED <<wuFrom, wuTo, wuNone>>
    /\ UNCHANGED NotWuVars

NextWu ==
    \/ WuLineNextBuffered
    \/ WuLineNextNone
    \/ WuLineNextPixelA
    \/ WuLineNextPixelB

SpecWu == InitWu /\ [][NextWu]_vars

(***************************************************************************)
(* renderer/renderer_3d.rs: Rasterizer::render.  A mesh is modelled with   *)
(* its vertices already mapped to raster space (the `points` of the call): *)
(* <<x, y, z>>, x and y the integers x_raster and y_raster, z the depth    *)
(* kept for z-buffering.  An f32 that need not be an integer is the exact  *)
(* fraction <<n, d>> it approximates; <<0, 0>> is NaN, <<1, 0>> and        *)
(* <<-1, 0>> are the infinities.                                           *)
(***************************************************************************)
Sign(n) == IF n > 0 THEN 1 ELSE IF n < 0 THEN -1 ELSE 0

XFrac(n, d) == IF d = 0 THEN <<Sign(n), 0>> ELSE Frac(n, d)

IsNaN(a) == a = <<0, 0>>

XAdd(a, b) ==
    IF a[2] = 0 /\ b[2] = 0 THEN (IF a = b THEN a ELSE <<0, 0>>)
    ELSE XFrac(a[1] * b[2] + b[1] * a[2], a[2] * b[2])

XMul(a, b) == XFrac(a[1] * b[1], a[2] * b[2])

XDiv(a, b) == XFrac(a[1] * b[2], a[2] * b[1])

\* a < b on f32: false when either side is NaN
XLt(a, b) ==
    /\ ~IsNaN(a)
    /\ ~IsNaN(b)
    /\ IF a[2] = 0 /\ b[2] = 0 THEN a[1] < b[1] ELSE a[1] * b[2] < b[1] * a[2]

\* on integer-valued arguments the result is an integer, exact in f32
edge_function(a, b, p) ==
    -((p[1] - a[1]) * (b[2] - a[2]) - (p[2] - a[2]) * (b[1] - a[1]))

\* a slip: get_unchecked-style lookups, no index is ever out of range
TriangleIndicesUnchecked(o, t) == TRUE

\* points[t.0], points[t.1], points[t.2] and attributes[t.0], ... do not panic
TriangleIndicesInRange(o, t) ==
    \A i \in 1..3 : t[i] < Len(o.points) /\ t[i] < Len(o.attributes)

\* the element a lookup yields; past the end, what an unchecked read finds
ElementAt(s, i) == IF i < Len(s) THEN s[i + 1] ELSE s[Len(s)]

\* the triangle t of object o: its three points and its three attributes
TriangleOf(o, t) ==
    [p |-> <<ElementAt(o.points, t[1]), ElementAt(o.points, t[2]),
             ElementAt(o.points, t[3])>>,
     a |-> <<ElementAt(o.attributes, t[1]), ElementAt(o.attributes, t[2]),
             ElementAt(o.attributes, t[3])>>]

\* (min.0 as i32..max.0 as i32).cartesian_product(min.1 as i32..max.1 as i32)
\* .filter(in the output): x runs in the outer loop, y in the inner one
Candidates(tri, width, height) ==
    LET xs == {tri.p[i][1] : i \in 1..3}
        ys == {tri.p[i][2] : i \in 1..3}
        min == <<CHOOSE v \in xs : \A u \in xs : v <= u,
                 CHOOSE v \in ys : \A u \in ys : v <= u>>
        max == <<CHOOSE v \in xs : \A u \in xs : v >= u,
                 CHOOSE v \in ys : \A u \in ys : v >= u>>
        nx == max[1] - min[1]
        ny == max[2] - min[2]
        all == [k \in 1..(nx * ny) |->
                    <<min[1] + ((k - 1) \div ny), min[2] + ((k - 1) % ny)>>]
        in_output(c) == c[1] >= 0 /\ c[1] < width /\ c[2] >= 0 /\ c[2] < height
    IN  SelectSeq(all, in_output)

\* w0 >= 0f32 && w1 >= 0f32 && w2 >= 0f32
CoverageTest(w0, w1, w2) == w0 >= 0 /\ w1 >= 0 /\ w2 >= 0

\* what the closure of the inner flat_map computes for the pixel (x, y) up
\* to the depth test: the edge values, and for a pixel that overlaps the
\* triangle the weights, the depth z and the colour
Fragment(tri, x, y) ==
    LET p0 == tri.p[1]
        p1 == tri.p[2]
        p2 == tri.p[3]
        area == edge_function(p0, p1, p2)
        e0 == edge_function(p1, p2, <<x, y>>)
        e1 == edge_function(p2, p0, <<x, y>>)
        e2 == edge_function(p0, p1, <<x, y>>)
        w0 == XDiv(<<e0, 1>>, <<area, 1>>)
        w1 == XDiv(<<e1, 1>>, <<area, 1>>)
        w2 == XDiv(<<e2, 1>>, <<area, 1>>)
        z == XDiv(<<1, 1>>,
                  XAdd(XAdd(XMul(XDiv(<<1, 1>>, p0[3]), w0),
                            XMul(XDiv(<<1, 1>>, p1[3]), w1)),
                       XMul(XDiv(<<1, 1>>, p2[3]), w2)))
        ch(i) == XMul(XAdd(XAdd(XMul(w0, tri.a[1][i]), XMul(w1, tri.a[2][i])),
                           XMul(w2, tri.a[3][i])),
                      z)
    IN  IF CoverageTest(e0, e1, e2)
        THEN [covered |-> TRUE, area |-> area, weights |-> <<w0, w1, w2>>, z |-> z,
              pixel |-> [kind |-> "Pixel", x |-> x, y |-> y,
                         color |-> <<ch(1), ch(2), ch(3), <<1, 1>> >>]]
        ELSE [covered |-> FALSE, area |-> area]

\* a slip: no depth test, every fragment is drawn
DepthTestAlways(z, stored) == TRUE

\* z < depth_buffer[idx]
DepthTest(z, stored) == XLt(z, stored)

\* the closure of the inner flat_map on one candidate pixel, up to the
\* update of the depth buffer: what it computed, and whether it emits
FillPixel(depth, tri, width, c) ==
    LET fr == Fragment(tri, c[1], c[2])
        stored == depth[c[2] * width + c[1] + 1]
    IN  IF fr.covered
        THEN [x |-> c[1], y |-> c[2], covered |-> TRUE, weights |-> fr.weights,
              z |-> fr.z, stored |-> stored, pass |-> DepthTest(fr.z, stored),
              pixel |-> fr.pixel]
        ELSE [x |-> c[1], y |-> c[2], covered |-> FALSE, pass |-> FALSE]

\* the fill pass over the candidate pixels of one triangle, in their order.
\* The cartesian product yields every pixel once, so each depth test reads
\* the entry the depth buffer had when the pass began.
FillScan(cands, tri, width, depth) ==
    LET is_any(f) == TRUE
        is_covered(f) == f.covered
        is_pass(f) == f.pass
        written(done, i) == {k \in 1..Len(done) :
                                done[k].pass /\ done[k].y * width + done[k].x + 1 = i}
        result(done, emitted) ==
            [depth_buffer |-> [i \in 1..Len(depth) |->
                                   IF written(done, i) = {} THEN depth[i]
                                   ELSE done[CHOOSE k \in written(done, i) : TRUE].z],
             pixels |-> [k \in 1..Len(emitted) |-> emitted[k].pixel],
             computed |-> SelectSeq(done, is_covered)]
    IN  CHOOSE r \in
            {result(done, SelectSeq(done, is_pass)) :
                done \in {SelectSeq([k \in 1..Len(cs) |-> FillPixel(depth, tri, width, cs[k])],
                                    is_any) : cs \in {cands}}} : TRUE

\* LineBuilder::<WuLine>::new().from(p0).to(p1).to(p2).close().shape()
WireframeOf(tri) ==
    LET q(i) == <<tri.p[i][1], tri.p[i][2]>>
    IN  WuLinePixels(q(1), q(2)) \o WuLinePixels(q(2), q(3)) \o WuLinePixels(q(3), q(1))

\* the lines of all triangles of an object
RECURSIVE WireframesOf(_, _)
WireframesOf(o, ts) ==
    IF Len(ts) = 0 THEN <<>>
    ELSE WireframeOf(TriangleOf(o, Head(ts))) \o WireframesOf(o, Tail(ts))

\* an f32 colour channel as the byte it is stored as: clamped to [0, 1],
\* scaled by 255 and rounded
ChannelToByte(v) ==
    IF IsNaN(v) \/ v[1] <= 0 THEN 0
    ELSE IF v[2] = 0 \/ v[1] >= v[2] THEN 255
    ELSE RoundDiv(255 * v[1], v[2])

ColorToBytes(c) == [i \in 1..4 |-> ChannelToByte(c[i])]

\* the compositor on a pixel that carries its colour: the bounds checks of
\* Drawifier::render, then the colour blended over the destination
DrawColorPixel(fr, w, h, p) ==
    LET idx == w * p.y + p.x
    IN  IF p.x < 0 \/ p.y < 0 THEN fr
        ELSE IF idx >= Len(fr) THEN fr
        ELSE IF p.x >= w \/ p.y >= h THEN fr
        ELSE [fr EXCEPT ![idx + 1] = Over(ColorToBytes(p.color), fr[idx + 1])]

\* the second loop of Drawifier::render on the pixels given, in their order
RECURSIVE DrawShapes(_, _, _, _)
DrawShapes(fr, w, h, pixels) ==
    IF Len(pixels) = 0 THEN fr
    ELSE CHOOSE r \in
            {DrawShapes(drawn, w, h, rest) :
                drawn \in {IF Head(pixels).kind = "Pixel"
                           THEN DrawColorPixel(fr, w, h, Head(pixels))
                           ELSE DrawPixel(fr, w, h, Head(pixels)).frame},
                rest \in {Tail(pixels)}} : TRUE

\* Drawifier::render on the shapes of the Rasterizer.  A pixel changes no
\* entry of the frame but its own, so the entry k is what the loop over the
\* pixels of index k - 1 leaves there.
DrawifierRender(fr, w, h, pixels) ==
    LET cleared == ClearFrame(fr, w, h)
        at(k) == LET here(p) == p.x >= 0 /\ p.y >= 0 /\ w * p.y + p.x = k - 1
                 IN  SelectSeq(pixels, here)
    IN  [k \in 1..Len(fr) |->
            CHOOSE e \in {DrawShapes(c, w, h, ps)[k] : c \in {cleared}, ps \in {at(k)}} : TRUE]

\* raster-space vertex positions: two triangles of the winding the fill pass
\* accepts that overlap, one of the other winding, three collinear points,
\* three coincident points, and a triangle that leaves the output
VertexTriples ==
    LET m == MaxRasterCoord
    IN  { << <<0, 0>>, <<m, 0>>, <<0, m>> >>,
          << <<0, 0>>, <<m, 0>>, <<m, m>> >>,
          << <<0, 0>>, <<0, m>>, <<m, 0>> >>,
          << <<0, 0>>, <<2, 2>>, <<m, m>> >>,
          << <<1, 1>>, <<1, 1>>, <<1, 1>> >>,
          << <<-1, -1>>, <<m, 0>>, <<0, m>> >> }

\* the depths of the three vertices
DepthProfiles ==
    { << <<1, 4>>, <<1, 4>>, <<1, 4>> >>,
      << <<1, 2>>, <<1, 2>>, <<1, 2>> >>,
      << <<1, 4>>, <<1, 2>>, <<3, 4>> >> }

\* the colours of the three vertices (VertexAttribute.color, red green blue)
AttributeTriples ==
    { << << <<1, 1>>, <<1, 1>>, <<1, 1>> >>, << <<1, 1>>, <<1, 1>>, <<1, 1>> >>,
         << <<1, 1>>, <<1, 1>>, <<1, 1>> >> >>,
      << << <<1, 1>>, <<0, 1>>, <<0, 1>> >>, << <<0, 1>>, <<1, 1>>, <<0, 1>> >>,
         << <<0, 1>>, <<0, 1>>, <<1, 1>> >> >> }

Triangles ==
    {[p |-> [i \in 1..3 |-> <<v[i][1], v[i][2], d[i]>>], a |-> c] :
        v \in VertexTriples, d \in DepthProfiles, c \in AttributeTriples}

\* a mesh of the triangles ts, each with three vertices of its own
MeshOf(ts) ==
    [points |-> [k \in 1..(3 * Len(ts)) |-> ts[(k + 2) \div 3].p[((k - 1) % 3) + 1]],
     attributes |-> [k \in 1..(3 * Len(ts)) |-> ts[(k + 2) \div 3].a[((k - 1) % 3) + 1]],
     indices |-> [k \in 1..Len(ts) |-> <<3 * k - 3, 3 * k - 2, 3 * k - 1>>]]

\* a mesh whose triangle k names, in position i, an index past its vertices
WithInvalidIndex(o, k, i) ==
    [o EXCEPT !.indices[k][i] = Len(o.points)]

\* one object of one or two triangles, or two objects of one triangle each
ValidWorlds ==
    {<<MeshOf(<<t>>)>> : t \in Triangles}
        \cup {<<MeshOf(<<t1, t2>>)>> : t1 \in Triangles, t2 \in Triangles}
        \cup {<<MeshOf(<<t1>>), MeshOf(<<t2>>)>> : t1 \in Triangles, t2 \in Triangles}

InvalidWorlds ==
    LET t1 == [p |-> << <<0, 0, <<1, 2>> >>, <<MaxRasterCoord, 0, <<1, 2>> >>,
                        <<0, MaxRasterCoord, <<1, 2>> >> >>,
               a |-> [i \in 1..3 |-> << <<1, 1>>, <<1, 1>>, <<1, 1>> >>]]
    IN  {<<WithInvalidIndex(MeshOf(<<t1, t1>>), k, i)>> : k \in 1..2, i \in 1..3}
            \cup {<<WithInvalidIndex(MeshOf(<<t1>>), 1, i), MeshOf(<<t1>>)>> : i \in 1..3}
            \cup {<<MeshOf(<<t1>>), WithInvalidIndex(MeshOf(<<t1>>), 1, i)>> : i \in 1..3}

\* the caller's buffer before the call: what an earlier frame left in it
StaleFrame == [k \in 1..(MaxRasterCoord * MaxRasterCoord) |-> <<12, 200, 7, 0>>]

NotRasterVars == <<LineVars, BuilderVars, DrawVars, CanvasVars, CircleVars, WuVars, SceneVars, WindowVars>>

\* a World with a Rasterizer and its objects, and the caller's buffer
InitRaster ==
    /\ LineIdle /\ BuilderIdle /\ DrawIdle /\ CanvasIdle /\ CircleIdle
    /\ WuIdle /\ SceneIdle /\ WindowIdle
    /\ rasterizer = [output_width |-> MaxRasterCoord, output_height |-> MaxRasterCoord]
    /\ meshes \in ValidWorlds \cup InvalidWorlds
    /\ rframe = StaleFrame
    /\ depth_buffer = <<>>
    /\ shapes = <<>>
    /\ fill_log = <<>>
    /\ rpc = "idle"
    /\ rpos = <<1, 1>>

\* World::render -> Rasterizer::render, up to the flat_map over the objects
RasterizerRenderBegin ==
    /\ rpc \in {"idle", "returned"}
    /\ depth_buffer' = [k \in 1..(rasterizer.output_width * rasterizer.output_height) |->
                            <<1, 0>>]
    /\ shapes' = <<>>
    /\ fill_log' = <<>>
    /\ rpos' = <<1, 1>>
    /\ rpc' = IF Len(meshes) = 0 THEN "draw" ELSE "object"
    /\ UNCHANGED <<rasterizer, meshes, rframe>>
    /\ UNCHANGED NotRasterVars

\* the closure of `planes` on the next triangle of the object: the lookups
\* by index, which panic on an index out of range, then the fill pass
RasterizerFillTriangle ==
    /\ rpc = "object"
    /\ rpos[2] <= Len(meshes[rpos[1]].indices)
    /\ LET o == meshes[rpos[1]]
           t == o.indices[rpos[2]]
           tri == TriangleOf(o, t)
       IN  IF TriangleIndicesInRange(o, t)
           THEN \E scan \in {FillScan(Candidates(tri, rasterizer.output_width,
                                                 rasterizer.output_height),
                                      tri, rasterizer.output_width, depth_buffer)} :
                /\ depth_buffer' = scan.depth_buffer
                /\ shapes' = shapes \o scan.pixels
                /\ fill_log' = Append(fill_log,
                                      [object |-> rpos[1], triangle |-> rpos[2],
                                       tri |-> tri, computed |-> scan.computed,
                                       pixels |-> scan.pixels])
                /\ rpos' = <<rpos[1], rpos[2] + 1>>
                /\ rpc' = "object"
           ELSE /\ rpc' = "panic"
                /\ UNCHANGED <<depth_buffer, shapes, fill_log, rpos>>
    /\ UNCHANGED <<rasterizer, meshes, rframe>>
    /\ UNCHANGED NotRasterVars

\* the fill pixels the passes of the log made for the object numbered o
RECURSIVE PlanesOf(_, _)
PlanesOf(log, o) ==
    IF Len(log) = 0 THEN <<>>
    ELSE (IF Head(log).object = o THEN Head(log).pixels ELSE <<>>)
             \o PlanesOf(Tail(log), o)

\* a slip: [lines, planes]
ObjectShapesLinesFirst(planes, edges) == edges \o planes

\* [planes, lines], flattened
ObjectShapes(planes, edges) == planes \o edges

\* the closure of `lines` on all triangles of the object, and what the
\* closure of the outer flat_map returns: the fill pixels of the object, which
\* are the last of `shapes`, are its `planes`
RasterizerWireframe ==
    /\ rpc = "object"
    /\ rpos[2] > Len(meshes[rpos[1]].indices)
    /\ LET o == meshes[rpos[1]]
           planes == PlanesOf(fill_log, rpos[1])
           earlier == SubSeq(shapes, 1, Len(shapes) - Len(planes))
       IN  IF \A k \in 1..Len(o.indices) : TriangleIndicesInRange(o, o.indices[k])
           THEN /\ shapes' = earlier \o ObjectShapes(planes, WireframesOf(o, o.indices))
                /\ rpos' = <<rpos[1] + 1, 1>>
                /\ rpc' = IF rpos[1] + 1 > Len(meshes) THEN "draw" ELSE "object"
           ELSE /\ rpc' = "panic"
                /\ UNCHANGED <<shapes, rpos>>
    /\ UNCHANGED <<rasterizer, meshes, rframe, depth_buffer, fill_log>>
    /\ UNCHANGED NotRasterVars

\* d.render(camera, &shapes, frame), and the return
RasterizerDrawifierRender ==
    /\ rpc = "draw"
    /\ rframe' = DrawifierRender(rframe, rasterizer.output_width,
                                 rasterizer.output_height, shapes)
    /\ rpc' = "returned"
    /\ UNCHANGED <<rasterizer, meshes, depth_buffer, shapes, fill_log, rpos>>
    /\ UNCHANGED NotRasterVars

NextRaster ==
    \/ RasterizerRenderBegin
    \/ RasterizerFillTriangle
    \/ RasterizerWireframe
    \/ RasterizerDrawifierRender

SpecRaster == InitRaster /\ [][NextRaster]_vars

(***************************************************************************)
(* examples/3d-scene.rs: the closure given to event_loop.run, on the       *)
(* events that touch the camera.  focal_length is counted in units of 1.0  *)
(* and a wheel event changes it by a multiple of WheelUnit; pitch and the  *)
(* change of yaw are counted in quarter turns, the cursor in pixels, and   *)
(* position as the net number of key steps along forward, right and Y.     *)
(***************************************************************************)
\* what `y * 100000f32 * dt` amounts to for one notch of the wheel
WheelUnit == 5

\* f32::max
F32Max(a, b) == IF a >= b THEN a ELSE b

\* world.camera.focal_length.max(0f32)
ClampFocalLength(f) == F32Max(f, 0)

\* Rad32::QUARTER_TURN
QUARTER_TURN == 1

\* pitch.clamp(-Rad32::QUARTER_TURN, Rad32::QUARTER_TURN)
ClampPitch(p) == Max(-QUARTER_TURN, Min(QUARTER_TURN, p))

CursorPositions == (0..MaxCursor) \X (0..MaxCursor)

NotSceneVars == <<LineVars, BuilderVars, DrawVars, CanvasVars, CircleVars, WuVars, RasterVars, WindowVars>>

\* the World and the locals of main when event_loop.run is entered
InitScene ==
    /\ LineIdle /\ BuilderIdle /\ DrawIdle /\ CanvasIdle /\ CircleIdle
    /\ WuIdle /\ RasterIdle /\ WindowIdle
    /\ SceneIdle

\* WindowEvent::MouseWheel { delta: LineDelta(_, y) }
MouseWheel ==
    \E notches \in (-MaxWheelNotches)..MaxWheelNotches :
        /\ world_camera.focal_length + notches * WheelUnit <= MaxWheelNotches * WheelUnit
        /\ world_camera' =
               [world_camera EXCEPT !.focal_length =
                   ClampFocalLength(world_camera.focal_length + notches * WheelUnit)]
        /\ redraw_requested' = TRUE
        /\ UNCHANGED <<lmb_pressed, last_cursor, rendered>>
        /\ UNCHANGED NotSceneVars

\* WindowEvent::KeyboardInput, state Pressed: W A S D Q E move the camera,
\* any other key only requests a redraw
KeyboardInput ==
    \E key_code \in {"KeyW", "KeyA", "KeyS", "KeyD", "KeyQ", "KeyE", "other"} :
        LET step == CASE key_code = "KeyW" -> <<1, 0, 0>>
                      [] key_code = "KeyS" -> <<-1, 0, 0>>
                      [] key_code = "KeyD" -> <<0, 1, 0>>
                      [] key_code = "KeyA" -> <<0, -1, 0>>
                      [] key_code = "KeyE" -> <<0, 0, 1>>
                      [] key_code = "KeyQ" -> <<0, 0, -1>>
                      [] OTHER -> <<0, 0, 0>>
            moved == [i \in 1..3 |-> world_camera.position[i] + step[i]]
        IN  /\ \A i \in 1..3 : Abs(moved[i]) <= MaxKeySteps
            /\ world_camera' = [world_camera EXCEPT !.position = moved]
            /\ redraw_requested' = TRUE
            /\ UNCHANGED <<lmb_pressed, last_cursor, rendered>>
            /\ UNCHANGED NotSceneVars

\* WindowEvent::MouseInput { button: Left }
MouseInput ==
    \E pressed \in BOOLEAN :
        /\ lmb_pressed' = pressed
        /\ UNCHANGED <<world_camera, last_cursor, redraw_requested, rendered>>
        /\ UNCHANGED NotSceneVars

\* WindowEvent::CursorMoved
CursorMoved ==
    \E position \in CursorPositions :
        /\ IF lmb_pressed
           THEN /\ IF last_cursor # <<>>
                   THEN LET x_change == -(position[1] - last_cursor[1][1])
                            y_change == position[2] - last_cursor[1][2]
                        IN  /\ Abs(world_camera.yaw + x_change) <= MaxYaw
                            /\ world_camera' =
                                   [world_camera EXCEPT
                                       !.yaw = @ + x_change,
                                       !.pitch = ClampPitch(@ + y_change)]
                            /\ redraw_requested' = TRUE
                   ELSE UNCHANGED <<world_camera, redraw_requested>>
                /\ last_cursor' = <<position>>
           ELSE /\ last_cursor' = <<>>
                /\ UNCHANGED <<world_camera, redraw_requested>>
        /\ UNCHANGED <<lmb_pressed, rendered>>
        /\ UNCHANGED NotSceneVars

\* WindowEvent::RedrawRequested: world.render(&mut frame) with the camera as
\* it is; `rendered` keeps the camera of the latest call
RedrawRequested ==
    /\ rendered' = <<[focal_length |-> world_camera.focal_length,
                      near |-> world_camera.near, far |-> world_camera.far]>>
    /\ redraw_requested' = FALSE
    /\ UNCHANGED <<world_camera, lmb_pressed, last_cursor>>
    /\ UNCHANGED NotSceneVars

NextScene ==
    \/ MouseWheel
    \/ KeyboardInput
    \/ MouseInput
    \/ CursorMoved
    \/ RedrawRequested

SpecScene == InitScene /\ [][NextScene]_vars

(***************************************************************************)
(* examples/2d-drawing.rs and examples/3d-scene.rs: main, the sizes it     *)
(* keeps. The window system reports sizes in physical pixels; the scale    *)
(* factor of the window is the number of physical pixels per logical one.  *)
(* The contents of the frame are left to the renderers' sections: here a   *)
(* render call is the sizes it is made with.                               *)
(***************************************************************************)
\* let width = 512; let height = 512;
WindowWidth == 512

WindowHeight == 512

\* the scale factors a display may have
ScaleFactors == {1, 2}

\* window.inner_size() of a window built with_inner_size::<LogicalSize<i32>>
InnerSize(logical, sf) == <<logical[1] * sf, logical[2] * sf>>

\* size.to_logical(window.scale_factor()), on sizes that divide evenly
ToLogical(size, sf) == <<size[1] \div sf, size[2] \div sf>>

\* the sizes a Resized event may carry under the scale factor sf
ResizedSizes(sf) == {<<w * sf, h * sf>> : w \in 1..MaxResize, h \in 1..MaxResize}

NotWindowVars == <<LineVars, BuilderVars, DrawVars, CanvasVars, CircleVars, WuVars,
                   RasterVars, SceneVars>>

\* main up to event_loop.run: the window, `pixels` and the World
InitDrawing ==
    /\ LineIdle /\ BuilderIdle /\ DrawIdle /\ CanvasIdle /\ CircleIdle
    /\ WuIdle /\ RasterIdle /\ SceneIdle
    /\ scale_factor \in ScaleFactors
    /\ pixel_surface = InnerSize(<<WindowWidth, WindowHeight>>, scale_factor)
    /\ pixel_buffer = InnerSize(<<WindowWidth, WindowHeight>>, scale_factor)
    /\ renderer_output = <<WindowWidth, WindowHeight>>
    /\ render_call = <<>>
    /\ exiting = FALSE

\* WindowEvent::CloseRequested
DrawingCloseRequested ==
    /\ ~exiting
    /\ exiting' = TRUE
    /\ UNCHANGED <<scale_factor, pixel_surface, pixel_buffer, renderer_output, render_call>>
    /\ UNCHANGED NotWindowVars

\* WindowEvent::Resized(size)
DrawingResized ==
    /\ ~exiting
    /\ \E physical \in ResizedSizes(scale_factor) :
           \E size \in {ToLogical(physical, scale_factor)} :
               /\ pixel_surface' = size
               /\ pixel_buffer' = size
               /\ renderer_output' = size
    /\ UNCHANGED <<scale_factor, render_call, exiting>>
    /\ UNCHANGED NotWindowVars

\* WindowEvent::RedrawRequested: the frame is the buffer of `pixels`, cut in
\* chunks of four bytes, and world.render draws with the renderer's fields
DrawingRedrawRequested ==
    /\ ~exiting
    /\ render_call' = [frame_len |-> pixel_buffer[1] * pixel_buffer[2],
                       buffer |-> pixel_buffer,
                       output |-> renderer_output]
    /\ UNCHANGED <<scale_factor, pixel_surface, pixel_buffer, renderer_output, exiting>>
    /\ UNCHANGED NotWindowVars

NextDrawing ==
    \/ DrawingCloseRequested
    \/ DrawingResized
    \/ DrawingRedrawRequested

SpecDrawing == InitDrawing /\ [][NextDrawing]_vars

(***************************************************************************)
(* The three generators under a caller that drains one of them (collect(), *)
(* flat_map, a for loop): it calls next() until next() returns None.       *)
(***************************************************************************)
InitGenerators == InitLine \/ InitWu \/ InitCircle

NextGenerators == NextLine \/ NextWu \/ NextCircle

SpecGenerators ==
    /\ InitGenerators
    /\ [][NextGenerators]_vars
    /\ WF_vars(NextLine)
    /\ WF_vars(NextWu)
    /\ WF_vars(NextCircle)

LineExtent == Max(Abs(bline.to[1] - blFrom[1]), Abs(bline.to[2] - blFrom[2]))

(***************************************************************************)
(* C1: the sequence of BresenhamLine::new(from, to) starts at from, ends   *)
(* exactly at to, and has max(|to.x-from.x|, |to.y-from.y|)+1 pixels.      *)
(***************************************************************************)
C1_BresenhamEndpointsAndCount ==
    /\ Len(blOut) >= 1 => blOut[1] = Normal(blFrom[1], blFrom[2])
    /\ Len(blOut) <= LineExtent + 1
    /\ blNone =>
          /\ Len(blOut) = LineExtent + 1
          /\ Last(blOut) = Normal(bline.to[1], bline.to[2])

\* a drained generator of a line that is neither axis-parallel nor diagonal
C1_Witness ==
    /\ blNone
    /\ Len(blOut) = 4
    /\ Abs(bline.to[1] - blFrom[1]) = 3
    /\ Abs(bline.to[2] - blFrom[2]) = 2

(***************************************************************************)
(* What the calls made on a builder ask for, read off the call log alone.  *)
(***************************************************************************)
\* the point given to the most recent from() call of a non-empty call log
LastFromPoint(cs) ==
    LET k == CHOOSE k \in 1..Len(cs) :
                 /\ cs[k][1] = "from"
                 /\ \A j \in (k + 1)..Len(cs) : cs[j][1] /= "from"
    IN  cs[k][2]

\* the point each call names: its argument, or for close() the subpath origin
RECURSIVE CalledPoints(_)
CalledPoints(cs) ==
    IF Len(cs) = 0 THEN <<>>
    ELSE Append(CalledPoints(Front(cs)),
                IF Last(cs)[1] = "close" THEN LastFromPoint(Front(cs)) ELSE Last(cs)[2])

\* independent line generators over the pairs (pts[i], pts[i+1]), i = k..n-1,
\* leaving out the pairs whose second point was given to from()
RECURSIVE LinesFrom(_, _, _)
LinesFrom(cs, pts, k) ==
    IF k >= Len(pts) THEN <<>>
    ELSE (IF cs[k + 1][1] = "from" THEN <<>>
          ELSE BresenhamLinePixels(pts[k], pts[k + 1]))
            \o LinesFrom(cs, pts, k + 1)

\* independent line generators over every pair (pts[i], pts[i+1]), i = k..n-1
RECURSIVE AllLinesFrom(_, _)
AllLinesFrom(pts, k) ==
    IF k >= Len(pts) THEN <<>>
    ELSE BresenhamLinePixels(pts[k], pts[k + 1]) \o AllLinesFrom(pts, k + 1)

NoLaterFrom(cs) == \A k \in 2..Len(cs) : cs[k][1] /= "from"

IsTriangle(cs) ==
    /\ Len(cs) = 4
    /\ cs[1][1] = "from" /\ cs[2][1] = "to" /\ cs[3][1] = "to" /\ cs[4][1] = "close"

(***************************************************************************)
(* C2: from(A).to(B).to(C).close().end() yields L::new(A,B), then          *)
(* L::new(B,C), then L::new(C,A); in general end() concatenates, in path   *)
(* order, L::new(p[i], p[i+1]) over the consecutive path points (every     *)
(* pair when no from() was called on a non-empty path; a pair whose second *)
(* point came from such a from() contributes nothing).                     *)
(***************************************************************************)
C2_EndConcatenatesLines ==
    lbState = "Ended" =>
        /\ IsTriangle(calls) =>
              shape = BresenhamLinePixels(calls[1][2], calls[2][2])
                        \o BresenhamLinePixels(calls[2][2], calls[3][2])
                        \o BresenhamLinePixels(calls[3][2], calls[1][2])
        /\ NoLaterFrom(calls) => shape = AllLinesFrom(CalledPoints(calls), 1)
        /\ shape = LinesFrom(calls, CalledPoints(calls), 1)

\* a closed triangle over three different points has been lowered to pixels
C2_Witness ==
    /\ lbState = "Ended"
    /\ IsTriangle(calls)
    /\ Cardinality({calls[1][2], calls[2][2], calls[3][2]}) = 3
    /\ Len(shape) > 6

\* the subpath of the point at index i: the number of from() calls up to it
Subpath(cs, i) == Cardinality({k \in 1..(i + 1) : cs[k][1] = "from"})

LineIndices == {<<lines[k][1][1], lines[k][2][1]>> : k \in 1..Len(lines)}

(***************************************************************************)
(* C3: end() instantiates no line generator for a pair (previous point, p) *)
(* made by from(p) on a non-empty path, and one for every other            *)
(* consecutive pair: no line joins two different subpaths.                 *)
(***************************************************************************)
C3_NoLineAcrossSubpaths ==
    lbState = "Ended" =>
        /\ \A i \in 1..(Len(calls) - 1) :
              (<<i - 1, i>> \in LineIndices) <=> (calls[i + 1][1] /= "from")
        /\ \A pr \in LineIndices :
              /\ pr[2] = pr[1] + 1
              /\ Subpath(calls, pr[1]) = Subpath(calls, pr[2])
        /\ Len(lines) = Cardinality(LineIndices)

\* a path of two subpaths, with a line before and after the move, was lowered
C3_Witness ==
    /\ lbState = "Ended"
    /\ Len(calls) = 5
    /\ calls[3][1] = "from" /\ calls[4][1] = "to" /\ calls[5][1] = "to"
    /\ calls[3][2] /= calls[2][2]
    /\ Len(lines) = 3

PathLenFitsState ==
    /\ lbState = "NoPoints" => Len(path) = 0
    /\ lbState = "HasStart" => Len(path) = 1
    /\ lbState \in {"HasEnd", "Ended"} => Len(path) >= 2

BuilderStep ==
    \/ /\ lbState = "NoPoints" /\ lbState' = "HasStart"
       /\ Last(calls')[1] = "from"
    \/ /\ lbState = "HasStart" /\ lbState' = "HasEnd"
       /\ Last(calls')[1] = "to"
    \/ /\ lbState = "HasEnd" /\ lbState' = "HasEnd"
       /\ Last(calls')[1] \in {"to", "from", "close"}
    \/ /\ lbState = "HasEnd" /\ lbState' = "Ended"
       /\ calls' = calls

(***************************************************************************)
(* C4: the builder is the state machine NoPoints -from-> HasStart -to->    *)
(* HasEnd, to/from/close keep HasEnd, pixel output happens only in HasEnd, *)
(* and the path holds 0 points in NoPoints, exactly 1 in HasStart and at   *)
(* least 2 in HasEnd.                                                      *)
(***************************************************************************)
C4_TypeStateMachine ==
    /\ []PathLenFitsState
    /\ [][/\ BuilderStep
          /\ <<lines, shape>>' /= <<lines, shape>> => lbState = "HasEnd"]_BuilderVars

\* pixel output has happened on the shortest path that allows it
C4_Witness ==
    /\ lbState = "Ended"
    /\ Len(path) = 2
    /\ Len(shape) > 0

BlendStep == dpc = "blend" /\ Len(iter) > 0 /\ iter' = Tail(iter)

SourceAlpha(p) == IF p.kind = "Normal" THEN 255 ELSE p.a

\* the pixel lies in [0, width) x [0, height) and its index inside the buffer
InFrame(p) ==
    /\ 0 <= p.x /\ p.x < output_width
    /\ 0 <= p.y /\ p.y < output_height
    /\ output_width * p.y + p.x < Len(frame)

\* position in the frame sequence of the pixel's index width*y+x
Slot(p) == output_width * p.y + p.x + 1

\* the pixels the running render call has been through
Processed ==
    SubSeq(Flatten(objects), 1, Len(Flatten(objects)) - Len(iter))

OpaqueBlack(n) == [k \in 1..n |-> <<0, 0, 0, 255>>]

RECURSIVE BlendAll(_, _)
BlendAll(fr, pixels) ==
    IF Len(pixels) = 0 THEN fr
    ELSE BlendAll(DrawPixel(fr, output_width, output_height, Head(pixels)).frame,
                  Tail(pixels))

(***************************************************************************)
(* C6: blending an in-bounds source pixel of full opacity (Normal, or      *)
(* AntiAliased with a = 255) makes the destination pixel the source colour *)
(* (opaque white) whatever it held; blending one with a = 0 leaves the     *)
(* four destination bytes as they were.                                    *)
(***************************************************************************)
C6_OpaqueReplacesTransparentKeeps ==
    [][(BlendStep /\ InFrame(Head(iter))) =>
          LET p == Head(iter)
          IN  /\ SourceAlpha(p) = 255 => frame'[Slot(p)] = <<255, 255, 255, 255>>
              /\ SourceAlpha(p) = 0 => frame'[Slot(p)] = frame[Slot(p)]]_DrawVars

\* a transparent pixel was blended onto a pixel that an earlier blend of the
\* same call had turned grey, and an opaque one onto a grey pixel as well
C6_Witness ==
    /\ dpc = "blend"
    /\ Len(Processed) = 2
    /\ LET p == Processed[1]
           q == Processed[2]
       IN  /\ InFrame(p) /\ InFrame(q)
           /\ Slot(p) = Slot(q)
           /\ SourceAlpha(p) = 128
           /\ SourceAlpha(q) = 0
           /\ frame[Slot(q)] = <<128, 128, 128, 255>>

(***************************************************************************)
(* C7: render completes without fault for every shape list, output size    *)
(* and frame length: a pixel with x < 0, y < 0, x >= width, y >= height or *)
(* width*y+x >= frame.len() is dropped without changing the buffer, and a  *)
(* write goes only to index width*y+x of a pixel that passed the checks.   *)
(***************************************************************************)
C7_RenderNeverFaults ==
    [][/\ dpc' /= "panic"
       /\ Len(frame') = Len(frame)
       /\ BlendStep =>
             IF InFrame(Head(iter))
             THEN \A k \in 1..Len(frame) :
                     k /= Slot(Head(iter)) => frame'[k] = frame[k]
             ELSE frame' = frame]_DrawVars

\* a render call has returned that dropped a pixel inside width x height
\* whose index lies past the end of a short frame, and wrote another pixel
C7_Witness ==
    /\ dpc = "idle"
    /\ renders >= 1
    /\ Len(frame) < output_width * output_height
    /\ \E k \in 1..Len(Flatten(objects)) :
          LET p == Flatten(objects)[k]
          IN  /\ 0 <= p.x /\ p.x < output_width
              /\ 0 <= p.y /\ p.y < output_height
              /\ output_width * p.y + p.x >= Len(frame)
    /\ \E k \in 1..Len(frame) : frame[k] /= <<0, 0, 0, 255>>

(***************************************************************************)
(* C8: every render call first sets every pixel of the buffer to opaque    *)
(* black and only then blends, so the buffer after render is a function of *)
(* the output dimensions and the shapes alone: whatever the buffer held    *)
(* before, and whether this is the first render of the input or a repeat.  *)
(***************************************************************************)
C8_RenderIgnoresPriorContents ==
    /\ dpc = "blend" => frame = BlendAll(OpaqueBlack(Len(frame)), Processed)
    /\ (dpc = "idle" /\ renders >= 1) =>
          frame = BlendAll(OpaqueBlack(Len(frame)), Flatten(objects))

\* the same input has been rendered twice into a frame longer than
\* width*height, and the result is not all black
C8_Witness ==
    /\ dpc = "idle"
    /\ renders = 2
    /\ Len(frame) > output_width * output_height
    /\ \E k \in 1..Len(frame) : frame[k] = <<128, 128, 128, 255>>

(***************************************************************************)
(* C9: with FitStrategy::Fill and apertureAR > outputAR, the canvas that   *)
(* from_camera_parameters returns has width/height equal to outputAR.      *)
(***************************************************************************)
C9_FillCanvasHasOutputRatio ==
    \A k \in 1..Len(canvas) :
        LET apertureAR == Frac(camera.aperture[1], camera.aperture[2])
            outputAR == Frac(output_dimensions[1], output_dimensions[2])
        IN  (camera.fit_strategy = "Fill" /\ FGt(apertureAR, outputAR)) =>
                FDiv(canvas[k].width, canvas[k].height) = outputAR

\* round(sqrt(s)) for an integer s >= 0: the k with (k - 1/2)^2 <= s < (k + 1/2)^2
RoundSqrt(s) ==
    IF s = 0 THEN 0
    ELSE CHOOSE k \in 1..s : k * k - k + 1 <= s /\ s <= k * k + k

RoundedDistance(c, p) ==
    RoundSqrt((p[1] - c[1]) * (p[1] - c[1]) + (p[2] - c[2]) * (p[2] - c[2]))

(***************************************************************************)
(* C10: every pixel (x, y) that BresenhamCircle::new((cx, cy), r, color)   *)
(* emits has round(sqrt((x-cx)^2 + (y-cy)^2)) in {r-1, r, r+1}.            *)
(***************************************************************************)
C10_CirclePixelsNearRadius ==
    \A k \in 1..Len(circOut) :
        RoundedDistance(circle.center, circOut[k]) \in {circR - 1, circR, circR + 1}

\* a circle of radius 7 off the origin has been drained: 8 pixels for each
\* of its octant steps
C10_Witness ==
    /\ circNone
    /\ circR = 7
    /\ circle.center /= <<0, 0>>
    /\ Len(circOut) >= 40

\* the line of wuFrom and wuTo as WuLine sees it: steep when |dy| > |dx|,
\* major axis x unless steep, start the endpoint of the smaller major coordinate
WuSteep == Abs(wuTo[2] - wuFrom[2]) > Abs(wuTo[1] - wuFrom[1])

WuMajor(p) == IF WuSteep THEN p[2] ELSE p[1]

WuMinor(p) == IF WuSteep THEN p[1] ELSE p[2]

WuStart == IF WuMajor(wuFrom) > WuMajor(wuTo) THEN wuTo ELSE wuFrom

WuEnd == IF WuMajor(wuFrom) > WuMajor(wuTo) THEN wuFrom ELSE wuTo

WuExtent == Max(Abs(wuTo[1] - wuFrom[1]), Abs(wuTo[2] - wuFrom[2]))

\* the coordinates of an emitted pixel along the major and the minor axis
PixelMajor(px) == IF WuSteep THEN px.y ELSE px.x

PixelMinor(px) == IF WuSteep THEN px.x ELSE px.y

\* the interior columns both pixels of which have been emitted: column k
\* (k = 1, 2, ...) is at major coordinate start + k and its pixels are
\* wuOut[2k + 3] and wuOut[2k + 4]
WuColumnsOut == 1..((Len(wuOut) - 4) \div 2)

(***************************************************************************)
(* C11: for a horizontal or vertical WuLine between integer endpoints, the *)
(* two pixels emitted for an interior column (row, for a vertical line)    *)
(* have alpha values that sum to 255, within a tolerance of 1.             *)
(***************************************************************************)
C11_AxisAlignedColumnsSumToOpaque ==
    (wuFrom[1] = wuTo[1] \/ wuFrom[2] = wuTo[2]) =>
        \A k \in WuColumnsOut :
            /\ PixelMajor(wuOut[2 * k + 3]) = WuMajor(WuStart) + k
            /\ PixelMajor(wuOut[2 * k + 4]) = WuMajor(WuStart) + k
            /\ Abs(wuOut[2 * k + 3].a + wuOut[2 * k + 4].a - 255) <= 1

\* a vertical line of extent 4 or more, off the axes, has been drained
C11_Witness ==
    /\ wuNone
    /\ wuFrom[1] = wuTo[1]
    /\ wuFrom[1] /= 0
    /\ WuExtent >= 4
    /\ Len(wuOut) >= 10

(***************************************************************************)
(* C13: a line generator constructed with from == to emits no pixel (so    *)
(* the zero-length segment close() makes when the current point is the     *)
(* subpath origin adds nothing to the shape).                              *)
(***************************************************************************)
C13_ZeroLengthLineEmitsNothing ==
    /\ (blFrom = bline.to) => blOut = <<>>
    /\ (wuFrom = wuTo) => wuOut = <<>>

(***************************************************************************)
(* C16: every generator is finite and one-shot: next() returns None after  *)
(* finitely many calls (at most max(|dx|,|dy|) + 1 pixels of a             *)
(* BresenhamLine, 4 + 2 max(|dx|,|dy|) of a WuLine, 8 (r + 1) of a         *)
(* BresenhamCircle come first), and once it has returned None every later  *)
(* call returns None and emits no other pixel.                             *)
(***************************************************************************)
C16_GeneratorsFiniteOneShot ==
    /\ <>(blNone /\ wuNone /\ circNone)
    /\ [](/\ Len(blOut) <= LineExtent + 1
          /\ Len(wuOut) <= 4 + 2 * WuExtent
          /\ Len(circOut) <= 8 * (circR + 1)
          /\ blNone => bline.stop
          /\ wuNone => (Len(wuline.start_end_buffer) = 0 /\ wuline.x >= wuline.x_end)
          /\ circNone => (Len(circle.buffer) = 0 /\ circle.y < circle.x))
    /\ [][/\ blNone => (blNone' /\ blOut' = blOut /\ bline' = bline)
          /\ wuNone => (wuNone' /\ wuOut' = wuOut /\ wuline' = wuline)
          /\ circNone => (circNone' /\ circOut' = circOut /\ circle' = circle)]_vars

\* a WuLine with interior columns has returned None after its last pixel
C16_Witness ==
    /\ wuNone
    /\ WuExtent >= 3
    /\ Len(wuOut) = 4 + 2 * (WuExtent - 1)

\* floor(n / d) for d > 0
FloorDiv(n, d) == n \div d

\* the ideal intercept at interior column k, as the fraction num / WuExtent
\* (WuExtent > 0): start.minor + k * (end.minor - start.minor) / WuExtent
WuIdealNum(k) == WuMinor(WuStart) * WuExtent + k * (WuMinor(WuEnd) - WuMinor(WuStart))

(***************************************************************************)
(* C18: for every WuLine and every interior column x with ideal intercept  *)
(* y, the two pixels emitted for x lie at the minor-axis coordinates       *)
(* floor(y) and floor(y) + 1 and carry the opacities 1 - frac(y) and       *)
(* frac(y) (compared after quantization, within 1).                        *)
(***************************************************************************)
C18_ColumnPixelsStraddleLine ==
    \A k \in WuColumnsOut :
        LET num == WuIdealNum(k)
            fl == FloorDiv(num, WuExtent)
            \* frac(y) * WuExtent
            fr == num - fl * WuExtent
            qa == IF fr = 0 THEN 255 ELSE (256 * (WuExtent - fr)) \div WuExtent
            qb == (256 * fr) \div WuExtent
            pa == wuOut[2 * k + 3]
            pb == wuOut[2 * k + 4]
        IN  /\ PixelMajor(pa) = WuMajor(WuStart) + k
            /\ PixelMajor(pb) = WuMajor(WuStart) + k
            /\ PixelMinor(pa) = fl
            /\ PixelMinor(pb) = fl + 1
            /\ Abs(pa.a - qa) <= 1
            /\ Abs(pb.a - qb) <= 1

\* the pixels of wuOut whose opacity the rule is stated for
QuantizedOut == {i \in 1..Len(wuOut) : wuOpacity[i] >= 0}

(***************************************************************************)
(* C19 (as amended): the opacity quantization maps every f >= 1.0 to 255   *)
(* and every f in [0, 1) to floor(f * 256): the fraction is dropped, not   *)
(* rounded.                                                                *)
(***************************************************************************)
C19_QuantizationDropsFraction ==
    \A i \in QuantizedOut :
        LET f == wuOpacity[i]
            a == wuOut[i].a
        IN  IF f >= F32Unit THEN a = 255
            ELSE a \in 0..255 /\ a * 2^19 <= f /\ f < (a + 1) * 2^19

\* a drained line has emitted a pixel of opacity 1.0 and a pixel whose
\* f * 256 has a fraction of one half or more
C19_Witness ==
    /\ wuNone
    /\ \E i \in QuantizedOut : wuOpacity[i] >= F32Unit
    /\ \E i \in QuantizedOut : wuOpacity[i] < F32Unit /\ wuOpacity[i] % 2^19 >= 2^18

(***************************************************************************)
(* C19 (as stated): the opacity quantization maps every f >= 1.0 to 255    *)
(* and every f in [0, 1) to round(f * 256) truncated to 8 bits.            *)
(***************************************************************************)
C19_QuantizationRounds ==
    \A i \in QuantizedOut :
        LET f == wuOpacity[i]
            a == wuOut[i].a
        IN  IF f >= F32Unit THEN a = 255
            ELSE a = ((f + 2^18) \div 2^19) % 256

(***************************************************************************)
(* C20: a WuLine of major-axis extent n = max(|dx|,|dy|) emits first its   *)
(* four endpoint pixels (the end pair, then the start pair, each in        *)
(* reverse of buffering order: the pixel at minor + 1 before the pixel at  *)
(* minor), then the interior pixels, two per column, for the columns       *)
(* strictly between start and end in increasing order; 4 + 2 max(0, n - 1) *)
(* pixels in all.                                                          *)
(***************************************************************************)
C20_EndpointsThenColumnsInOrder ==
    LET expected == << <<WuMajor(WuEnd), WuMinor(WuEnd) + 1>>,
                       <<WuMajor(WuEnd), WuMinor(WuEnd)>>,
                       <<WuMajor(WuStart), WuMinor(WuStart) + 1>>,
                       <<WuMajor(WuStart), WuMinor(WuStart)>> >>
    IN  /\ \A i \in 1..Min(Len(wuOut), 4) :
              <<PixelMajor(wuOut[i]), PixelMinor(wuOut[i])>> = expected[i]
        /\ \A i \in 5..Len(wuOut) :
              /\ PixelMajor(wuOut[i]) = WuMajor(WuStart) + (i - 3) \div 2
              /\ PixelMajor(wuOut[i]) < WuMajor(WuEnd)
        /\ wuNone => Len(wuOut) = 4 + 2 * Max(0, WuExtent - 1)

\* a steep line drawn from its far end, with interior columns, has been drained
C20_Witness ==
    /\ wuNone
    /\ WuSteep
    /\ wuFrom[2] > wuTo[2]
    /\ WuExtent >= 3
    /\ Len(wuOut) = 4 + 2 * (WuExtent - 1)

\* the pixel (x, y) is one that a wireframe line of the call emitted
TouchedByWireframe(x, y) ==
    \E k \in 1..Len(shapes) :
        shapes[k].kind # "Pixel" /\ shapes[k].x = x /\ shapes[k].y = y

\* the fill passes i and j of the call, in that order or the other, found the
\* pixel of their a-th and b-th computation inside both triangles, off every
\* wireframe line, and the triangle of pass i nearer there
NearerAt(i, a, j, b) ==
    LET ci == fill_log[i].computed[a]
        cj == fill_log[j].computed[b]
    IN  /\ i # j
        /\ ci.x = cj.x
        /\ ci.y = cj.y
        /\ XLt(ci.z, cj.z)
        /\ ~TouchedByWireframe(ci.x, ci.y)

\* the bytes of the frame at the pixel of the a-th computation of pass i
FrameAt(i, a) ==
    rframe[fill_log[i].computed[a].y * rasterizer.output_width
               + fill_log[i].computed[a].x + 1]

\* the colour the triangle of pass i has at the pixel of its a-th computation
TriangleColourAt(i, a) ==
    ColorToBytes(Fragment(fill_log[i].tri, fill_log[i].computed[a].x,
                          fill_log[i].computed[a].y).pixel.color)

C12_WitnessFartherFirst ==
    /\ rpc = "returned"
    /\ \E i \in 1..Len(fill_log), j \in 1..Len(fill_log) :
        \E a \in 1..Len(fill_log[i].computed), b \in 1..Len(fill_log[j].computed) :
            /\ i > j
            /\ NearerAt(i, a, j, b)
            /\ TriangleColourAt(i, a) # TriangleColourAt(j, b)
            /\ FrameAt(i, a) = TriangleColourAt(i, a)

\* the signed area the fill pass of the log entry e computed for its triangle
AreaOf(e) == edge_function(e.tri.p[1], e.tri.p[2], e.tri.p[3])

(***************************************************************************)
(* C14: for a triangle whose three raster-space vertices are collinear or  *)
(* coincident, edge(p0, p1, p2) = 0, the rasterizer guards the division by *)
(* the zero area, so that no barycentric weight is computed as value / 0,  *)
(* and skips the triangle, which emits no fill pixel.                      *)
(***************************************************************************)
C14_ZeroAreaGuarded ==
    \A i \in 1..Len(fill_log) :
        AreaOf(fill_log[i]) = 0 =>
            /\ fill_log[i].computed = <<>>
            /\ fill_log[i].pixels = <<>>

\* some triangle of the meshes names an index past the vertices of its mesh
HasInvalidIndex ==
    \E m \in 1..Len(meshes) :
        \E k \in 1..Len(meshes[m].indices), i \in 1..3 :
            meshes[m].indices[k][i] >= Len(meshes[m].points)

(***************************************************************************)
(* C15: Rasterizer::render on a mesh that has a triangle tuple with an     *)
(* index >= vertices.len() panics instead of returning, and it panics      *)
(* before the call has written any byte of the frame buffer.               *)
(***************************************************************************)
C15_InvalidIndexPanicsBeforeFrameWritten ==
    HasInvalidIndex =>
        /\ rpc \in {"idle", "object", "panic"}
        /\ rframe = StaleFrame

\* the call panicked on the second triangle it looked up, after the fill pass
\* of the first, and the frame is as the caller passed it
C15_Witness ==
    /\ HasInvalidIndex
    /\ rpc = "panic"
    /\ Len(shapes) > 0
    /\ rframe = StaleFrame

(***************************************************************************)
(* C17: in the event loop of the 3D scene, after any sequence of mouse     *)
(* wheel, keyboard and cursor events from the initial camera, the camera   *)
(* has focal_length > 0, near > 0 and near < far at every render call.     *)
(***************************************************************************)
C17_CameraInvariantAtEveryRender ==
    rendered # <<>> =>
        /\ rendered[1].focal_length > 0
        /\ FGt(rendered[1].near, <<0, 1>>)
        /\ FGt(rendered[1].far, rendered[1].near)

\* the candidate pixels of the fill pass of the log entry e
CandidatesOf(e) == Candidates(e.tri, rasterizer.output_width, rasterizer.output_height)

\* the fill pass of the log entry e treated the pixel c as covered
TreatedAsCovered(e, c) ==
    \E a \in 1..Len(e.computed) : e.computed[a].x = c[1] /\ e.computed[a].y = c[2]

\* the three edge values at the pixel c are of the sign of the signed area of
\* the triangle of the log entry e, an edge value of zero going with either
SharesSignOfArea(e, c) ==
    LET p0 == e.tri.p[1]
        p1 == e.tri.p[2]
        p2 == e.tri.p[3]
    IN  /\ edge_function(p1, p2, c) * AreaOf(e) >= 0
        /\ edge_function(p2, p0, c) * AreaOf(e) >= 0
        /\ edge_function(p0, p1, c) * AreaOf(e) >= 0

(***************************************************************************)
(* C21: in the fill pass a candidate pixel inside the bounding box of the  *)
(* triangle is treated as covered if and only if the three edge-function   *)
(* values at that pixel all share the sign of the total signed area        *)
(* edge(p0, p1, p2) of the triangle, for triangles of either winding.      *)
(***************************************************************************)
C21_CoveredIffEdgesShareSignOfArea ==
    \A i \in 1..Len(fill_log) :
        AreaOf(fill_log[i]) # 0 =>
            \A k \in 1..Len(CandidatesOf(fill_log[i])) :
                TreatedAsCovered(fill_log[i], CandidatesOf(fill_log[i])[k])
                    <=> SharesSignOfArea(fill_log[i], CandidatesOf(fill_log[i])[k])

\* the depths the fill passes of the call so far computed at the pixel of the
\* entry k of the depth buffer
FragmentDepthsAt(k) ==
    UNION {{fill_log[i].computed[a].z :
               a \in {b \in 1..Len(fill_log[i].computed) :
                         fill_log[i].computed[b].y * rasterizer.output_width
                             + fill_log[i].computed[b].x + 1 = k}} :
           i \in 1..Len(fill_log)}

\* in a call: one entry per output pixel, all +infinity before the first fill
\* pass, a fragment passes the test exactly when it is strictly nearer than
\* the stored depth, and each entry is the least depth computed at its pixel
DepthBufferHoldsMinimum ==
    rpc # "idle" =>
        /\ Len(depth_buffer) = rasterizer.output_width * rasterizer.output_height
        /\ fill_log = <<>> => \A k \in 1..Len(depth_buffer) : depth_buffer[k] = <<1, 0>>
        /\ \A i \in 1..Len(fill_log) : \A a \in 1..Len(fill_log[i].computed) :
               fill_log[i].computed[a].pass
                   <=> XLt(fill_log[i].computed[a].z, fill_log[i].computed[a].stored)
        /\ \A k \in 1..Len(depth_buffer) :
               /\ depth_buffer[k] \in FragmentDepthsAt(k) \cup {<<1, 0>>}
               /\ \A z \in FragmentDepthsAt(k) : ~XLt(z, depth_buffer[k])

\* a step inside a call leaves an entry as it is or makes it strictly less
DepthBufferStepDecreases ==
    (rpc = "object" /\ Len(depth_buffer') = Len(depth_buffer)) =>
        \A k \in 1..Len(depth_buffer) :
            depth_buffer'[k] = depth_buffer[k] \/ XLt(depth_buffer'[k], depth_buffer[k])

(***************************************************************************)
(* C22: within one Rasterizer::render call the depth buffer has one entry  *)
(* per output pixel, every entry starts at +infinity, an entry is written  *)
(* only when the depth of the new fragment is strictly less than the       *)
(* stored value, and so each entry never increases and ends as the minimum *)
(* depth of the fragments that covered its pixel.                          *)
(***************************************************************************)
C22_DepthBufferMonotoneMinimum ==
    []DepthBufferHoldsMinimum /\ [][DepthBufferStepDecreases]_vars

\* a call has returned in which a pixel was covered by a farther fragment
\* first and a nearer one second, and its entry is the depth of the nearer
C22_Witness ==
    /\ rpc = "returned"
    /\ \E i \in 1..Len(fill_log), j \in 1..Len(fill_log) :
        \E a \in 1..Len(fill_log[i].computed), b \in 1..Len(fill_log[j].computed) :
            /\ i < j
            /\ fill_log[i].computed[a].x = fill_log[j].computed[b].x
            /\ fill_log[i].computed[a].y = fill_log[j].computed[b].y
            /\ fill_log[i].computed[a].pass
            /\ fill_log[j].computed[b].pass
            /\ XLt(fill_log[j].computed[b].z, fill_log[i].computed[a].z)
            /\ depth_buffer[fill_log[j].computed[b].y * rasterizer.output_width
                                + fill_log[j].computed[b].x + 1]
                   = fill_log[j].computed[b].z

\* the shapes of the objects numbered m and up: for each object its fill
\* pixels, then every pixel of the wireframe lines of its triangles
RECURSIVE FillThenWireframe(_)
FillThenWireframe(m) ==
    IF m > Len(meshes) THEN <<>>
    ELSE PlanesOf(fill_log, m) \o WireframesOf(meshes[m], meshes[m].indices)
             \o FillThenWireframe(m + 1)

\* the wireframe pixels of the last object that are opaque and in the output
OpaqueWireframeOfLast ==
    {p \in UNION {{w[k] : k \in 1..Len(w)} :
                     w \in {WireframesOf(meshes[Len(meshes)],
                                         meshes[Len(meshes)].indices)}} :
        /\ p.a = 255
        /\ p.x >= 0 /\ p.x < rasterizer.output_width
        /\ p.y >= 0 /\ p.y < rasterizer.output_height}

BuilderFieldsValid ==
    Len(calls) > 0 =>
        /\ Len(path) = Len(calls)
        /\ last_line_beginning >= 0 /\ last_line_beginning < Len(path)
        /\ \A k \in 1..Len(skip_line) :
               /\ skip_line[k][1] >= 0
               /\ skip_line[k][2] = skip_line[k][1] + 1
               /\ skip_line[k][2] < Len(path)
        /\ \A j, k \in 1..Len(skip_line) : skip_line[j] = skip_line[k] => j = k
        /\ lbState = "HasEnd" =>
               Len(EndFiltered(path, skip_line)) = Len(path) - 1 - Len(skip_line)
        /\ lbState = "Ended" => Len(lines) = Len(path) - 1 - Len(skip_line)

\* a call of from, to or close pushes one point and leaves the others in place
BuilderCallAppendsOnePoint ==
    calls' # calls =>
        /\ Len(path') = Len(path) + 1
        /\ \A k \in 1..Len(path) : path'[k] = path[k]

(***************************************************************************)
(* C25: after any sequence of from/to/close calls on a builder, each call  *)
(* has appended exactly one point to path, last_line_beginning is a valid  *)
(* index of path, every skip_line entry is a pair (i, i+1) with            *)
(* i+1 < path.len() and no pair occurs twice, and end() instantiates       *)
(* path.len() - 1 - skip_line.len() line generators.                       *)
(***************************************************************************)
C25_BuilderInvariants == []BuilderFieldsValid /\ [][BuilderCallAppendsOnePoint]_vars

\* end() was called on a builder with two pairs in skip_line and a closed
\* second subpath, and instantiated the line generators that remain
C25_Witness ==
    /\ lbState = "Ended"
    /\ Len(skip_line) = 2
    /\ last_line_beginning > 0
    /\ Contains(calls, <<"close">>)
    /\ Len(lines) = Len(path) - 3
    /\ Len(lines) > 0

(***************************************************************************)
(* C24: in the event loop, for any interleaving of Resized and             *)
(* RedrawRequested events, at every render call the renderer's recorded    *)
(* output_width and output_height equal the dimensions of the pixel buffer *)
(* passed to render.                                                       *)
(***************************************************************************)
C24_RendererMatchesBufferAtEveryRender ==
    render_call # <<>> => render_call.output = render_call.buffer

====
